---- MODULE Spec2Model ----
(***************************************************************************)
(* Model of the PostgreSQL driver of bytebase (package pg) and of the      *)
(* generic migration executor that drives its history-executor capability  *)
(* set.                                                                    *)
(*                                                                         *)
(* The driver (Execute, FindLargestSequence, FindLargestVersionSince-      *)
(* Baseline, InsertPendingHistory, UpdateHistoryAsDone, UpdateHistoryAs-   *)
(* Failed) is translated from src/unnamed/part_001.  The executor          *)
(* util.ExecuteMigration, the statement splitter and the migration_history *)
(* DDL are not part of the sources at hand; they follow spec.md 3, 4.4,    *)
(* 4.7 and 5.                                                              *)
(***************************************************************************)
EXTENDS Integers, Sequences, FiniteSets, TLC

VARIABLES
    history,        \* table migration_history, in order of id (id = index)
    tables,         \* per database: the tables that exist (its schema)
    tables0,        \* the schemas the databases had when the driver was opened
    databases,      \* pg_database: the databases of the instance
    dbOwner,        \* per database: its owner role
    lock,           \* per namespace: the holder of the advisory lock
    pc,             \* per executor: its position in ExecuteMigration
    mig,            \* per executor: the migration (descriptor, statement) it runs
    loc,            \* per executor: its local variables
    ctxDone,        \* per executor: whether its context was cancelled
    cancelledRows,  \* ids of the rows whose execution was cancelled
    conn,           \* driver.databaseName of the driver that Execute is called on
    execResult,     \* what the last direct call of Execute returned
    strictDatabase, \* driver.strictDatabase ("" unless opened in strict database mode)
    baseDSN,        \* driver.baseDSN
    historyTables,  \* the databases that hold a table migration_history
    storedVersions, \* per database: the version column of its migration_history
    historyAccess,  \* the databases whose migration_history the driver read or wrote
    opResult,       \* what the last operation of the driver returned
    repository,     \* the repository that the webhook endpoint belongs to
    hookPc,         \* the position of the webhook handler
    request,        \* the request the handler serves
    ci,             \* the index of commit in pushEvent.CommitList
    ai,             \* the index of added in commit.AddedList
    createdMessageList, \* the handler's createdMessageList
    processed,      \* the <<ci, ai>> the handler went through, for this request
    issues,         \* the issues of the issue service, in order of creation
    issues0,        \* the number of issues when the request passed its checks
    response,       \* the response to the request
    taskStarted,    \* the ids of the issues whose task was started
    openCall,       \* the arguments of the last call of Open
    attempts,       \* the guesses that the last call of Open tried to ping
    openErr,        \* the error that the last call of Open returned
    driverDb,       \* driver.db: the DSN of its pool ({} when it is nil)
    driverConfig,   \* driver.config
    dumpPc,         \* the position of Dump
    dumpableDbNames, \* Dump's dumpableDbNames
    dbIndex,        \* the index in dumpableDbNames of the database being dumped
    dumpOut,        \* the lines written to Dump's out
    sectionStart,   \* per database dumped: the number of lines written before it, plus 1
    scanned,        \* the lines pg_dump wrote for the database being dumped
    previousLineComment, \* dumpOneDatabaseWithPgDump's previousLineComment
    previousLineEmpty,   \* dumpOneDatabaseWithPgDump's previousLineEmpty
    dumpErr,        \* the error that Dump returned
    pgDumpRuns,     \* per run of pg_dump: its command line and environment
    restorePc,      \* the position of Restore
    restoreScript,  \* the statements of the script that Restore reads
    restoreIdx,     \* the number of statements that Restore executed
    restoreTxn,     \* txn of Restore: the tables it sees, and its error
    restoreBefore,  \* the tables of the database when Restore began
    restoreErr,     \* the error that Restore returned
    quoteArg,       \* the identifier that quoteIdentifier is first called on
    quoteResults,   \* what quoteIdentifier returned, and what it returned on that
    now,            \* NOW() of the database server, in seconds
    found,          \* the ids of the rows that the last FindMigrationHistoryList returned, in order
    poolPc,         \* the position of the driver between newDriver and Close
    sqlPools,       \* the pools that sql.Open returned, in order: open or closed
    deferred,       \* the probe pools whose Close guessDSN deferred
    guessIdx,       \* the guess that guessDSN tries next
    dbPool,         \* driver.db: the pool of the driver, 0 for nil
    poolErr,        \* the error of the last operation on the driver
    inbox,          \* the table inbox: its rows by id
    inboxBefore,    \* the table inbox when the last call began
    inboxCall,      \* the last call of the inbox service and its argument
    inboxRet,       \* what the last call returned: an inbox and an error
    indexItems,     \* the column items that the index statement was written from
    indexPc,        \* the position of getIndexColumnExpressions
    columnStmt,     \* columnStmt: what is left of the column list
    cols,           \* cols: the tokens found so far
    indexErr,       \* the error that getIndexColumnExpressions returned
    pgDatabase,     \* pg_database: the names of the databases of the server
    createCall,     \* the last CREATE DATABASE script that Execute was called on, and its outcome
    createCount,    \* the calls of Execute so far
    migrationHistory,\* the table migration_history that the backfill reads: its rows by id
    historyBefore,  \* the table when the last call of the backfill began
    backfillPc,     \* the position of updateMigrationHistoryStorageVersion
    vers,           \* vers: the ids and versions that the backfill has read
    versIdx,        \* the element of vers that the loop is at
    backfillCall,   \* the last call of the backfill: strict database mode, and its error
    backfillCount,  \* the calls of the backfill so far
    sharedPools,    \* the pools that the driver of the two callers opened, in order: open or closed
    sharedDb,       \* driver.db of that driver: its pool, 0 for nil
    callPc,         \* per caller: its position in GetDbConnection
    callFor,        \* per caller: the database it called GetDbConnection for
    callDb,         \* per caller: db of switchDatabase, the pool that its sql.Open returned
    sqldb,          \* per caller: the pool that GetDbConnection returned to it, 0 for none
    ranOn,          \* per caller: the database its last statement ran on, or its error
    pgTable,        \* the table of the synced database: its names, columns and rows
    syncPc,         \* the position of getPgTables
    tbl,            \* tbl: the tableSchema that getPgTables fills
    syncErr         \* the error that getPgTables returned

\* The variables of the bootstrap and of the query path of the history.
setupVars == <<strictDatabase, baseDSN, historyTables, storedVersions, historyAccess,
               opResult>>

\* The variables of the webhook and of the tasks of its issues.
hookVars == <<repository, hookPc, request, ci, ai, createdMessageList, processed,
              issues, issues0, response, taskStarted>>

\* The variables of Open.
openVars == <<openCall, attempts, openErr, driverDb, driverConfig>>

\* The variables of Dump.
dumpVars == <<dumpPc, dumpableDbNames, dbIndex, dumpOut, sectionStart, scanned,
              previousLineComment, previousLineEmpty, dumpErr>>

\* The variables of the runs of pg_dump.
pgDumpVars == <<pgDumpRuns>>

\* The variables of Restore.
restoreVars == <<restorePc, restoreScript, restoreIdx, restoreTxn,
                 restoreBefore, restoreErr>>

\* The variables of the calls of quoteIdentifier.
quoteVars == <<quoteArg, quoteResults>>

\* The clock of the database server and the reads of the history.
clockVars == <<now, found>>

\* The variables of the connection pools of one driver.
poolVars == <<poolPc, sqlPools, deferred, guessIdx,
              dbPool, poolErr>>

\* The variables of the inbox service.
inboxVars == <<inbox, inboxBefore, inboxCall, inboxRet>>

\* The variables of getIndexColumnExpressions.
indexVars == <<indexItems, indexPc, columnStmt, cols,
               indexErr>>

\* The variables of Execute on CREATE DATABASE statements.
createVars == <<pgDatabase, createCall, createCount>>

\* The variables of the backfill of the stored versions.
backfillVars == <<migrationHistory, historyBefore, backfillPc, vers,
                  versIdx, backfillCall, backfillCount>>

\* The variables of two callers of one driver.
sharedVars == <<sharedPools, sharedDb, callPc, callFor,
                callDb, sqldb, ranOn>>

\* The variables of the schema sync of one table.
syncVars == <<pgTable, syncPc, tbl, syncErr>>

\* The variables that the bootstrap, the webhook and Open leave alone.
extraVars == <<dumpVars, pgDumpVars, restoreVars, quoteVars, clockVars, poolVars, inboxVars, indexVars, createVars, backfillVars, sharedVars, syncVars>>

\* The variables that the migration executor and Execute leave alone.
otherVars == <<setupVars, hookVars, openVars, extraVars>>

vars == <<history, tables, tables0, databases, dbOwner, lock, pc, mig, loc, ctxDone,
          cancelledRows, conn, execResult, otherVars>>

\* What the operations outside the migration executor, the bootstrap, the
\* webhook and Open leave alone.
DumpFrame ==
    /\ UNCHANGED <<history, tables, tables0, databases, dbOwner, lock, pc, mig, loc, ctxDone,
               cancelledRows, conn, execResult>>
    /\ UNCHANGED <<setupVars, hookVars, openVars, pgDumpVars, restoreVars, quoteVars, clockVars, poolVars, inboxVars, indexVars, createVars, backfillVars, sharedVars, syncVars>>

PgDumpFrame ==
    /\ UNCHANGED <<history, tables, tables0, databases, dbOwner, lock, pc, mig, loc, ctxDone,
               cancelledRows, conn, execResult>>
    /\ UNCHANGED <<setupVars, hookVars, openVars, dumpVars, restoreVars, quoteVars, clockVars, poolVars, inboxVars, indexVars, createVars, backfillVars, sharedVars, syncVars>>

RestoreFrame ==
    /\ UNCHANGED <<history, tables0, databases, dbOwner, lock, pc, mig, loc,
               ctxDone, cancelledRows, conn, execResult>>
    /\ UNCHANGED <<setupVars, hookVars, openVars, dumpVars, pgDumpVars, quoteVars, clockVars, poolVars, inboxVars, indexVars, createVars, backfillVars, sharedVars, syncVars>>

QuoteFrame ==
    /\ UNCHANGED <<history, tables, tables0, databases, dbOwner, lock, pc, mig, loc, ctxDone,
               cancelledRows, conn, execResult>>
    /\ UNCHANGED <<setupVars, hookVars, openVars, dumpVars, pgDumpVars, restoreVars, clockVars, poolVars, inboxVars, indexVars, createVars, backfillVars, sharedVars, syncVars>>

ClockFrame ==
    /\ UNCHANGED <<history, tables, tables0, databases, dbOwner, lock, pc, mig, loc, ctxDone,
               cancelledRows, conn, execResult>>
    /\ UNCHANGED <<setupVars, hookVars, openVars, dumpVars, pgDumpVars, restoreVars, quoteVars, poolVars, inboxVars, indexVars, createVars, backfillVars, sharedVars, syncVars>>

PoolFrame ==
    /\ UNCHANGED <<history, tables, tables0, databases, dbOwner, lock, pc, mig, loc, ctxDone,
               cancelledRows, conn, execResult>>
    /\ UNCHANGED <<setupVars, hookVars, openVars, dumpVars, pgDumpVars, restoreVars, quoteVars, clockVars, inboxVars, indexVars, createVars, backfillVars, sharedVars, syncVars>>

InboxFrame ==
    /\ UNCHANGED <<history, tables, tables0, databases, dbOwner, lock, pc, mig, loc, ctxDone,
               cancelledRows, conn, execResult>>
    /\ UNCHANGED <<setupVars, hookVars, openVars, dumpVars, pgDumpVars, restoreVars, quoteVars, clockVars, poolVars, indexVars, createVars, backfillVars, sharedVars, syncVars>>

IndexFrame ==
    /\ UNCHANGED <<history, tables, tables0, databases, dbOwner, lock, pc, mig, loc, ctxDone,
               cancelledRows, conn, execResult>>
    /\ UNCHANGED <<setupVars, hookVars, openVars, dumpVars, pgDumpVars, restoreVars, quoteVars, clockVars, poolVars, inboxVars, createVars, backfillVars, sharedVars, syncVars>>

CreateFrame ==
    /\ UNCHANGED <<history, tables, tables0, databases, dbOwner, lock, pc, mig, loc, ctxDone,
               cancelledRows, conn, execResult>>
    /\ UNCHANGED <<setupVars, hookVars, openVars, dumpVars, pgDumpVars, restoreVars, quoteVars, clockVars, poolVars, inboxVars, indexVars, backfillVars, sharedVars, syncVars>>

BackfillFrame ==
    /\ UNCHANGED <<history, tables, tables0, databases, dbOwner, lock, pc, mig, loc, ctxDone,
               cancelledRows, conn, execResult>>
    /\ UNCHANGED <<setupVars, hookVars, openVars, dumpVars, pgDumpVars, restoreVars, quoteVars, clockVars, poolVars, inboxVars, indexVars, createVars, sharedVars, syncVars>>

SharedFrame ==
    /\ UNCHANGED <<history, tables, tables0, databases, dbOwner, lock, pc, mig, loc, ctxDone,
               cancelledRows, conn, execResult>>
    /\ UNCHANGED <<setupVars, hookVars, openVars, dumpVars, pgDumpVars, restoreVars, quoteVars, clockVars, poolVars, inboxVars, indexVars, createVars, backfillVars, syncVars>>

SyncFrame ==
    /\ UNCHANGED <<history, tables, tables0, databases, dbOwner, lock, pc, mig, loc, ctxDone,
               cancelledRows, conn, execResult>>
    /\ UNCHANGED <<setupVars, hookVars, openVars, dumpVars, pgDumpVars, restoreVars, quoteVars, clockVars, poolVars, inboxVars, indexVars, createVars, backfillVars, sharedVars>>

----------------------------------------------------------------------------
(* Bounds and input sets *)

MaxRows == 3

Procs == {"p1", "p2"}
Namespaces == {"app", "aux"}
DbNames == Namespaces \cup {"bytebase"}
TableNames == {"t", "u"}
Roles == {"admin", "dev"}
Types == {"BASELINE", "MIGRATE", "BRANCH"}

\* Version strings, as sequences of digits: "1", "10" and "2".
Versions == {<<1>>, <<1, 0>>, <<2>>}

NoProc == "none"
NoErr == "nil"
NULL == "NULL"
\* A nil *string: MAX(version) over no row.
NoVersion == <<>>

----------------------------------------------------------------------------
(* Statements.  A script is the sequence of statements the splitter yields. *)

Stmt(op, arg) == [op |-> op, arg |-> arg]

CreateTable(t) == Stmt("CREATE TABLE", t)
DropTable(t) == Stmt("DROP TABLE", t)
DivideByZero == Stmt("SELECT 1/0", "")
CreateDatabase(d) == Stmt("CREATE DATABASE", d)
AlterOwner(d, r) == Stmt("ALTER DATABASE OWNER TO", <<d, r>>)
Connect(d) == Stmt("\\connect", d)
BadConnect == Stmt("\\connect", NULL)

\* The statements of migrations: they change the target database only.
MigrationScripts ==
    { <<CreateTable("t")>>,
      <<CreateTable("u"), DivideByZero>> }

----------------------------------------------------------------------------
(* The stored form of versions and its order *)

NonSemanticPrefix == <<0, 0>>

ToStoredVersion(v) == NonSemanticPrefix \o v

\* The order of text values: MAX(version) and the comparison of stored versions.
RECURSIVE StoredVersionLess(_, _)
StoredVersionLess(a, b) ==
    IF a = <<>> THEN b # <<>>
    ELSE IF b = <<>> THEN FALSE
    ELSE IF a[1] # b[1] THEN a[1] < b[1]
    ELSE StoredVersionLess(Tail(a), Tail(b))

StoredVersionLeq(a, b) == a = b \/ StoredVersionLess(a, b)

----------------------------------------------------------------------------
(* Driver.Execute *)

\* The closure f of Execute: one statement of the splitting pass.
\* st extends an instance by remaining (remainingStmts) and err.
ApplyOutsideTx(st, stmt) ==
    IF stmt.op = "CREATE DATABASE" THEN
        IF st.conn \notin st.databases
        THEN [st EXCEPT !.err = "ConnectionError"]
        ELSE IF stmt.arg \in st.databases
        THEN st
        ELSE [st EXCEPT !.databases = @ \cup {stmt.arg}]
    ELSE IF stmt.op = "ALTER DATABASE OWNER TO" THEN
        IF st.conn \notin st.databases
        THEN [st EXCEPT !.err = "ConnectionError"]
        ELSE IF stmt.arg[1] \notin st.databases
        THEN [st EXCEPT !.err = "EngineError"]
        ELSE [st EXCEPT !.dbOwner[stmt.arg[1]] = stmt.arg[2]]
    ELSE IF stmt.op = "\\connect" THEN
        IF stmt.arg = NULL
        THEN [st EXCEPT !.err = "InvalidStatement"]
        ELSE [st EXCEPT !.conn = stmt.arg]
    ELSE [st EXCEPT !.remaining = Append(@, stmt)]

\* util.ApplyMultiStatements(sc, f): f on every statement, in order, until one fails.
RECURSIVE ApplyMultiStatements(_, _, _)
ApplyMultiStatements(st, script, i) ==
    IF i > Len(script) \/ st.err # NoErr
    THEN st
    ELSE ApplyMultiStatements(ApplyOutsideTx(st, script[i]), script, i + 1)

\* One statement inside the transaction, on the tables of the connected database.
ExecInTx(work, stmt) ==
    IF work.err # NoErr THEN work
    ELSE IF stmt.op = "CREATE TABLE" THEN
        IF stmt.arg \in work.tables
        THEN [work EXCEPT !.err = "EngineError"]
        ELSE [work EXCEPT !.tables = @ \cup {stmt.arg}]
    ELSE IF stmt.op = "DROP TABLE" THEN
        IF stmt.arg \notin work.tables
        THEN [work EXCEPT !.err = "EngineError"]
        ELSE [work EXCEPT !.tables = @ \ {stmt.arg}]
    ELSE [work EXCEPT !.err = "EngineError"]

\* The statements run from the last to the first.
RECURSIVE ExecRemaining_Backwards(_, _, _)
ExecRemaining_Backwards(work, stmts, i) ==
    IF i > Len(stmts) THEN work
    ELSE ExecInTx(ExecRemaining_Backwards(work, stmts, i + 1), stmts[i])

\* tx.ExecContext(ctx, strings.Join(remainingStmts, "\n"))
RECURSIVE ExecRemaining(_, _, _)
ExecRemaining(work, stmts, i) ==
    IF i > Len(stmts) THEN work
    ELSE ExecRemaining(ExecInTx(work, stmts[i]), stmts, i + 1)

\* The transaction's work stays although it did not commit.
Rollback_Partial(before, work) == work

\* defer tx.Rollback(): what the transaction leaves when it did not commit.
Rollback(before, work) == before

\* Execute(ctx, statement) on instance d; the result is the instance and the error.
Execute(d, script) ==
    LET st0 == [databases |-> d.databases, tables |-> d.tables,
                dbOwner |-> d.dbOwner, conn |-> d.conn,
                remaining |-> <<>>, err |-> NoErr]
        st == ApplyMultiStatements(st0, script, 1)
        out(tbls, e) == [databases |-> st.databases, tables |-> tbls,
                         dbOwner |-> st.dbOwner, conn |-> st.conn, err |-> e]
    IN  IF st.err # NoErr THEN out(st.tables, st.err)
        ELSE IF st.remaining = <<>> THEN out(st.tables, NoErr)
        ELSE IF st.conn \notin st.databases THEN out(st.tables, "ConnectionError")
        ELSE LET before == st.tables[st.conn]
                 work == ExecRemaining([tables |-> before, err |-> NoErr],
                                       st.remaining, 1)
             IN  IF work.err # NoErr
                 THEN out([st.tables EXCEPT ![st.conn] = Rollback(before, work.tables)],
                          work.err)
                 ELSE out([st.tables EXCEPT ![st.conn] = work.tables], NoErr)

\* Dump(ctx, database, out, schemaOnly = true): the schema of one database.
Dump(tbls, database) == tbls[database]

----------------------------------------------------------------------------
(* The history-executor capability set of the driver *)

Max(S) == CHOOSE x \in S : \A y \in S : y <= x

MaxVersion(S) == CHOOSE x \in S : \A y \in S : StoredVersionLeq(y, x)

\* The namespace is not part of the WHERE clause.
FindLargestSequence_AnyNamespace(h, namespace, baseline) ==
    LET rows == { i \in DOMAIN h :
                    baseline => h[i].type \in {"BASELINE", "BRANCH"} }
    IN  IF rows = {} THEN 0 ELSE Max({ h[i].sequence : i \in rows })

\* The type filter is added whatever the flag says.
FindLargestSequence_AlwaysBaseline(h, namespace, baseline) ==
    LET rows == { i \in DOMAIN h :
                    /\ h[i].namespace = namespace
                    /\ h[i].type \in {"BASELINE", "BRANCH"} }
    IN  IF rows = {} THEN 0 ELSE Max({ h[i].sequence : i \in rows })

\* SELECT MAX(sequence) FROM migration_history WHERE namespace = $1
\*   [AND (type = 'BASELINE' OR type = 'BRANCH')]
FindLargestSequence(h, namespace, baseline) ==
    LET rows == { i \in DOMAIN h :
                    /\ h[i].namespace = namespace
                    /\ baseline => h[i].type \in {"BASELINE", "BRANCH"} }
    IN  IF rows = {} THEN 0 ELSE Max({ h[i].sequence : i \in rows })

\* The scanned version is dropped: nil is returned also when there are rows.
FindLargestVersionSinceBaseline_Nil(h, namespace) == NoVersion

\* sequence > $2 instead of sequence >= $2.
FindLargestVersionSinceBaseline_Exclusive(h, namespace) ==
    LET largestBaselineSequence == FindLargestSequence(h, namespace, TRUE)
        rows == { i \in DOMAIN h :
                    /\ h[i].namespace = namespace
                    /\ h[i].sequence > largestBaselineSequence }
    IN  IF rows = {} THEN NoVersion ELSE MaxVersion({ h[i].version : i \in rows })

\* SELECT MAX(version) FROM migration_history WHERE namespace = $1 AND sequence >= $2
FindLargestVersionSinceBaseline(h, namespace) ==
    LET largestBaselineSequence == FindLargestSequence(h, namespace, TRUE)
        rows == { i \in DOMAIN h :
                    /\ h[i].namespace = namespace
                    /\ h[i].sequence >= largestBaselineSequence }
    IN  IF rows = {} THEN NoVersion ELSE MaxVersion({ h[i].version : i \in rows })

\* "schema" is inserted empty instead of prevSchema.
InsertPendingHistory_EmptySchema(h, sequence, prevSchema, m, storedVersion, createdTs) ==
    Append(h, [created_ts |-> createdTs,
               namespace |-> m.namespace,
               sequence |-> sequence,
               type |-> m.type,
               status |-> "PENDING",
               version |-> storedVersion,
               schema |-> {},
               schema_prev |-> prevSchema,
               execution_duration_ns |-> 0])

\* INSERT INTO migration_history (...) VALUES (..., EXTRACT(epoch from NOW()),
\*   ..., 'PENDING', ...) RETURNING id
InsertPendingHistory(h, sequence, prevSchema, m, storedVersion, createdTs) ==
    Append(h, [created_ts |-> createdTs,
               namespace |-> m.namespace,
               sequence |-> sequence,
               type |-> m.type,
               status |-> "PENDING",
               version |-> storedVersion,
               schema |-> prevSchema,
               schema_prev |-> prevSchema,
               execution_duration_ns |-> 0])

\* "schema" = $2 is missing from the SET list.
UpdateHistoryAsDone_NoSchema(h, migrationDurationNs, updatedSchema, insertedID) ==
    [ i \in DOMAIN h |->
        IF i = insertedID
        THEN [h[i] EXCEPT !.status = "DONE",
                          !.execution_duration_ns = migrationDurationNs]
        ELSE h[i] ]

\* UPDATE migration_history SET status = 'DONE', execution_duration_ns = $1,
\*   "schema" = $2 WHERE id = $3
UpdateHistoryAsDone(h, migrationDurationNs, updatedSchema, insertedID) ==
    [ i \in DOMAIN h |->
        IF i = insertedID
        THEN [h[i] EXCEPT !.status = "DONE",
                          !.execution_duration_ns = migrationDurationNs,
                          !.schema = updatedSchema]
        ELSE h[i] ]

\* The WHERE clause is missing: every row is updated.
UpdateHistoryAsFailed_NoWhere(h, migrationDurationNs, insertedID) ==
    [ i \in DOMAIN h |->
        [h[i] EXCEPT !.status = "FAILED",
                     !.execution_duration_ns = migrationDurationNs] ]

\* status = 'FAILED' is missing from the SET list.
UpdateHistoryAsFailed_NoStatus(h, migrationDurationNs, insertedID) ==
    [ i \in DOMAIN h |->
        IF i = insertedID
        THEN [h[i] EXCEPT !.execution_duration_ns = migrationDurationNs]
        ELSE h[i] ]

\* execution_duration_ns = $1 is missing from the SET list.
UpdateHistoryAsFailed_NoDuration(h, migrationDurationNs, insertedID) ==
    [ i \in DOMAIN h |->
        IF i = insertedID
        THEN [h[i] EXCEPT !.status = "FAILED"]
        ELSE h[i] ]

\* UPDATE migration_history SET status = 'FAILED', execution_duration_ns = $1
\*   WHERE id = $2
UpdateHistoryAsFailed(h, migrationDurationNs, insertedID) ==
    [ i \in DOMAIN h |->
        IF i = insertedID
        THEN [h[i] EXCEPT !.status = "FAILED",
                          !.execution_duration_ns = migrationDurationNs]
        ELSE h[i] ]

----------------------------------------------------------------------------
(* The migration executor, util.ExecuteMigration(ctx, driver, m, statement) *)

\* execResult before any direct call of Execute.
NoCall == [script |-> <<>>, err |-> NoErr]

NoMig == [namespace |-> NULL, type |-> NULL, version |-> <<>>, statement |-> <<>>]

NoLocals == [sequence |-> 0, insertedID |-> 0, err |-> NoErr]

\* The migrations that are requested.  On "app": a MIGRATE of every version
\* with every script, a BASELINE and a BRANCH of every version, which carry no
\* statement.  On "aux": one plain migration.
Migrations ==
    [namespace : {"app"}, type : {"MIGRATE"}, version : Versions,
     statement : MigrationScripts]
    \cup
    [namespace : {"app"}, type : {"BASELINE", "BRANCH"}, version : Versions,
     statement : {<<>>}]
    \cup
    [namespace : {"aux"}, type : {"MIGRATE"}, version : {<<1>>},
     statement : {<<CreateTable("t")>>}]

\* The migrations of the runs that are checked for progress.
FairMigrations ==
    [namespace : {"app"}, type : {"MIGRATE"}, version : {<<1>>, <<2>>},
     statement : MigrationScripts]
    \cup
    [namespace : {"app"}, type : {"BASELINE"}, version : {<<1, 0>>},
     statement : {<<>>}]

\* The executors that have started and have not inserted their row yet.
BeforeInsert ==
    { p \in Procs : pc[p] \in {"waiting", "locked", "checked", "sequenced"} }

\* The rows of one namespace, in order of id.
RowsOf(h, namespace) == SelectSeq(h, LAMBDA r : r.namespace = namespace)

\* ExecuteMigration(ctx, m, statement) is called.
Begin(p, m) ==
    /\ pc[p] = "idle"
    /\ Len(history) + Cardinality(BeforeInsert) < MaxRows
    /\ mig' = [mig EXCEPT ![p] = m]
    /\ pc' = [pc EXCEPT ![p] = "waiting"]
    /\ UNCHANGED <<history, tables, tables0, databases, dbOwner, lock, loc, ctxDone,
                   cancelledRows, conn, execResult>>
    /\ UNCHANGED otherVars

\* Step 1: take the advisory lock of the namespace, once it is free.
LockFree(namespace) == lock[namespace] = NoProc

AcquireLock(p) ==
    /\ pc[p] = "waiting"
    /\ LockFree(mig[p].namespace)
    /\ lock' = [lock EXCEPT ![mig[p].namespace] = p]
    /\ pc' = [pc EXCEPT ![p] = "locked"]
    /\ UNCHANGED <<history, tables, tables0, databases, dbOwner, mig, loc, ctxDone,
                   cancelledRows, conn, execResult>>
    /\ UNCHANGED otherVars

\* Step 2: a migration that is not a BASELINE is refused when a version >= its
\* own exists since the latest BASELINE or BRANCH.
AlreadyApplied(h, m) ==
    LET largest == FindLargestVersionSinceBaseline(h, m.namespace)
    IN  /\ m.type # "BASELINE"
        /\ largest # NoVersion
        /\ StoredVersionLeq(ToStoredVersion(m.version), largest)

CheckVersion(p) ==
    /\ pc[p] = "locked"
    /\ IF AlreadyApplied(history, mig[p])
       THEN /\ loc' = [loc EXCEPT ![p].err = "MigrationAlreadyApplied"]
            /\ pc' = [pc EXCEPT ![p] = "release"]
       ELSE /\ loc' = loc
            /\ pc' = [pc EXCEPT ![p] = "checked"]
    /\ UNCHANGED <<history, tables, tables0, databases, dbOwner, lock, mig, ctxDone,
                   cancelledRows, conn, execResult>>
    /\ UNCHANGED otherVars

\* Step 3: the next sequence of the namespace.
NextSequence(p) ==
    /\ pc[p] = "checked"
    /\ loc' = [loc EXCEPT ![p].sequence =
                 FindLargestSequence(history, mig[p].namespace, FALSE) + 1]
    /\ pc' = [pc EXCEPT ![p] = "sequenced"]
    /\ UNCHANGED <<history, tables, tables0, databases, dbOwner, lock, mig, ctxDone,
                   cancelledRows, conn, execResult>>
    /\ UNCHANGED otherVars

\* No uniqueness is enforced on (namespace, version).
UniqueNamespaceVersion_None(h, namespace, storedVersion) == TRUE

\* migration_history holds one row for each (namespace, version).
UniqueNamespaceVersion(h, namespace, storedVersion) ==
    \A i \in DOMAIN h :
        ~(h[i].namespace = namespace /\ h[i].version = storedVersion)

\* Steps 4 and 5: dump the schema of the target database as it is before the
\* migration and insert the PENDING row.
InsertPending(p) ==
    /\ pc[p] = "sequenced"
    /\ LET m == mig[p]
           storedVersion == ToStoredVersion(m.version)
           prevSchema == Dump(tables, m.namespace)
       IN  IF UniqueNamespaceVersion(history, m.namespace, storedVersion)
           THEN /\ history' = InsertPendingHistory(history, loc[p].sequence,
                                                   prevSchema, m, storedVersion,
                                                   now)
                /\ loc' = [loc EXCEPT ![p].insertedID = Len(history) + 1]
                /\ pc' = [pc EXCEPT ![p] = "inserted"]
           ELSE /\ history' = history
                /\ loc' = [loc EXCEPT ![p].err = "IntegrityViolation"]
                /\ pc' = [pc EXCEPT ![p] = "release"]
    /\ UNCHANGED <<tables, tables0, databases, dbOwner, lock, mig, ctxDone,
                   cancelledRows, conn, execResult>>
    /\ UNCHANGED otherVars

\* The context of a migration is cancelled while its statement has not finished.
Cancel(p) ==
    /\ pc[p] = "inserted"
    /\ ~ctxDone[p]
    /\ ctxDone' = [ctxDone EXCEPT ![p] = TRUE]
    /\ cancelledRows' = cancelledRows \cup {loc[p].insertedID}
    /\ UNCHANGED <<history, tables, tables0, databases, dbOwner, lock, pc, mig, loc,
                   conn, execResult>>
    /\ UNCHANGED otherVars

\* Step 6, first half: the statement runs through Execute on the target
\* database; a BASELINE records the schema and runs nothing.
ExecuteStatement(p) ==
    /\ pc[p] = "inserted"
    /\ LET m == mig[p]
           r == Execute([databases |-> databases, tables |-> tables,
                         dbOwner |-> dbOwner, conn |-> m.namespace], m.statement)
       IN  IF ctxDone[p]
           THEN /\ tables' = tables
                /\ loc' = [loc EXCEPT ![p].err = "Canceled"]
           ELSE IF m.type = "BASELINE"
           THEN /\ tables' = tables
                /\ loc' = loc
           ELSE /\ tables' = r.tables
                /\ loc' = [loc EXCEPT ![p].err = r.err]
    /\ pc' = [pc EXCEPT ![p] = "executed"]
    /\ UNCHANGED <<history, tables0, databases, dbOwner, lock, mig, ctxDone,
                   cancelledRows, conn, execResult>>
    /\ UNCHANGED otherVars

\* The duration from the insert to the end of the statement, or to the cancellation.
Elapsed(p) == IF ctxDone[p] THEN 1 ELSE 2

\* Step 6, second half: the terminal update of the row.
Finalize(p) ==
    /\ pc[p] = "executed"
    /\ history' =
         IF loc[p].err = NoErr
         THEN UpdateHistoryAsDone(history, Elapsed(p),
                                  Dump(tables, mig[p].namespace), loc[p].insertedID)
         ELSE UpdateHistoryAsFailed(history, Elapsed(p), loc[p].insertedID)
    /\ pc' = [pc EXCEPT ![p] = "release"]
    /\ UNCHANGED <<tables, tables0, databases, dbOwner, lock, mig, loc, ctxDone,
                   cancelledRows, conn, execResult>>
    /\ UNCHANGED otherVars

\* Step 7: release the lock; ExecuteMigration returns.
ReleaseLock(p) ==
    /\ pc[p] = "release"
    /\ lock' = [lock EXCEPT ![mig[p].namespace] = NoProc]
    /\ pc' = [pc EXCEPT ![p] = "idle"]
    /\ mig' = [mig EXCEPT ![p] = NoMig]
    /\ loc' = [loc EXCEPT ![p] = NoLocals]
    /\ ctxDone' = [ctxDone EXCEPT ![p] = FALSE]
    /\ UNCHANGED <<history, tables, tables0, databases, dbOwner, cancelledRows, conn,
                   execResult>>
    /\ UNCHANGED otherVars

----------------------------------------------------------------------------
(* The specification of concurrent migrations *)

\* opResult before any operation of the driver.
NoOp == [op |-> "none", fault |-> "none", err |-> NoErr, value |-> FALSE]

\* The bootstrap is not in use: a driver that was opened on an instance.
SetupIdle ==
    /\ strictDatabase = ""
    /\ baseDSN = {<<"host", "db">>, <<"user", "admin">>}
    /\ historyTables = {"bytebase"}
    /\ storedVersions = [d \in DbNames |-> <<>>]
    /\ historyAccess = {}
    /\ opResult = NoOp

\* request before any request, response before any response.
NoRequest ==
    [endpoint |-> "", token |-> "", ObjectKind |-> "", ProjectID |-> 0,
     CommitList |-> <<>>, storeErr |-> FALSE]

NoResponse == [code |-> 0, body |-> <<>>]

\* The webhook is not in use.
HookIdle ==
    /\ repository = [WebhookEndpointId |-> "ep1", SecretToken |-> "secret",
                     ExternalId |-> <<1, 2>>, BaseDirectory |-> <<"d">>,
                     ProjectId |-> 1]
    /\ hookPc = "idle"
    /\ request = NoRequest
    /\ ci = 0
    /\ ai = 0
    /\ createdMessageList = <<>>
    /\ processed = {}
    /\ issues = <<>>
    /\ issues0 = 0
    /\ response = NoResponse
    /\ taskStarted = {}

\* The value of db.ConnectionConfig of a driver that was not opened.
NoConfig ==
    [Database |-> "", SslCA |-> "", SslCert |-> "", SslKey |-> "",
     ReadOnly |-> FALSE, StrictUseDb |-> FALSE]

\* openCall before any call of Open.
NoOpenCall == [config |-> NoConfig, accepts |-> {}]

\* Open is not in use.
OpenIdle ==
    /\ openCall = NoOpenCall
    /\ attempts = <<>>
    /\ openErr = NoErr
    /\ driverDb = {}
    /\ driverConfig = NoConfig

\* No call of Dump yet.
DumpIdle ==
    /\ dumpPc = "idle"
    /\ dumpableDbNames = <<>>
    /\ dbIndex = 0
    /\ dumpOut = <<>>
    /\ sectionStart = <<>>
    /\ scanned = <<>>
    /\ previousLineComment = FALSE
    /\ previousLineEmpty = FALSE
    /\ dumpErr = NoErr

\* No run of pg_dump yet.
NoRun == [config |-> NoConfig, database |-> "", schemaOnly |-> FALSE,
          path |-> <<>>, args |-> <<>>, env |-> {}]

PgDumpIdle == pgDumpRuns = [i \in {1, 2} |-> NoRun]

\* No call of Restore yet.
RestoreIdle ==
    /\ restorePc = "idle"
    /\ restoreScript = <<>>
    /\ restoreIdx = 0
    /\ restoreTxn = [tables |-> {}, err |-> NoErr]
    /\ restoreBefore = {}
    /\ restoreErr = NoErr

\* No call of quoteIdentifier yet.
QuoteIdle == quoteArg = <<>> /\ quoteResults = <<>>

\* The clock at the start, and no read of the history yet.
ClockIdle == now = 0 /\ found = <<>>

\* A driver that newDriver returned: no pool was opened.
PoolIdle ==
    /\ poolPc = "new"
    /\ sqlPools = <<>>
    /\ deferred = <<>>
    /\ guessIdx = 0
    /\ dbPool = 0
    /\ poolErr = NoErr

\* A pointer is the set of what it points to: nil is the empty set.
Nil == {}

\* No inbox is returned.
NoInbox == [ID |-> 0]

\* The inbox service was not called: the table is empty.
InboxIdle ==
    /\ inbox = <<>>
    /\ inboxBefore = <<>>
    /\ inboxCall = [op |-> "none", arg |-> NoInbox, fault |-> "none"]
    /\ inboxRet = [inbox |-> NoInbox, err |-> NoErr]

\* getIndexColumnExpressions was not called.
IndexIdle ==
    /\ indexItems = <<>>
    /\ indexPc = "idle"
    /\ columnStmt = <<>>
    /\ cols = <<>>
    /\ indexErr = NoErr

\* createCall before any call.
NoCreateCall == [name |-> <<>>, before |-> {}, issued |-> FALSE, err |-> NoErr]

\* Execute was not called on a CREATE DATABASE script.
CreateIdle ==
    /\ pgDatabase = {}
    /\ createCall = NoCreateCall
    /\ createCount = 0

\* The backfill was not called, on an empty table.
BackfillIdle ==
    /\ migrationHistory = <<>>
    /\ historyBefore = <<>>
    /\ backfillPc = "idle"
    /\ vers = <<>>
    /\ versIdx = 0
    /\ backfillCall = [strict |-> FALSE, err |-> NoErr]
    /\ backfillCount = 0

\* The driver of the two callers as newDriver returned it, and no call yet.
SharedIdle ==
    /\ sharedPools = <<>>
    /\ sharedDb = 0
    /\ callPc = <<"idle", "idle">>
    /\ callFor = <<"", "">>
    /\ callDb = <<0, 0>>
    /\ sqldb = <<0, 0>>
    /\ ranOn = <<"", "">>

\* No table to sync and no tableSchema.
NoTable == [schemaName |-> <<>>, name |-> <<>>, rowCount |-> 0, columns |-> {}]

\* No schema sync yet.
SyncIdle ==
    /\ pgTable = NoTable
    /\ syncPc = "idle"
    /\ tbl = NoTable
    /\ syncErr = NoErr

ExtraIdle ==
    /\ DumpIdle
    /\ PgDumpIdle
    /\ RestoreIdle
    /\ QuoteIdle
    /\ ClockIdle
    /\ PoolIdle
    /\ InboxIdle
    /\ IndexIdle
    /\ CreateIdle
    /\ BackfillIdle
    /\ SharedIdle
    /\ SyncIdle

\* Nothing but quoteIdentifier was called.
QuoteOthersIdle ==
    /\ SetupIdle
    /\ HookIdle
    /\ OpenIdle
    /\ DumpIdle
    /\ PgDumpIdle
    /\ RestoreIdle
    /\ ClockIdle
    /\ PoolIdle
    /\ InboxIdle
    /\ IndexIdle
    /\ CreateIdle
    /\ BackfillIdle
    /\ SharedIdle
    /\ SyncIdle

\* Nothing but getIndexColumnExpressions was called.
IndexOthersIdle ==
    /\ SetupIdle
    /\ HookIdle
    /\ OpenIdle
    /\ DumpIdle
    /\ PgDumpIdle
    /\ RestoreIdle
    /\ QuoteIdle
    /\ ClockIdle
    /\ PoolIdle
    /\ InboxIdle
    /\ CreateIdle
    /\ BackfillIdle
    /\ SharedIdle
    /\ SyncIdle

\* Nothing but the backfill of the stored versions was called.
BackfillOthersIdle ==
    /\ SetupIdle
    /\ HookIdle
    /\ OpenIdle
    /\ DumpIdle
    /\ PgDumpIdle
    /\ RestoreIdle
    /\ QuoteIdle
    /\ ClockIdle
    /\ PoolIdle
    /\ InboxIdle
    /\ IndexIdle
    /\ CreateIdle
    /\ SharedIdle
    /\ SyncIdle

\* Nothing but the calls of the two callers happened.
SharedOthersIdle ==
    /\ SetupIdle
    /\ HookIdle
    /\ OpenIdle
    /\ DumpIdle
    /\ PgDumpIdle
    /\ RestoreIdle
    /\ QuoteIdle
    /\ ClockIdle
    /\ PoolIdle
    /\ InboxIdle
    /\ IndexIdle
    /\ CreateIdle
    /\ BackfillIdle
    /\ SyncIdle

\* Nothing but the schema sync was called.
SyncOthersIdle ==
    /\ SetupIdle
    /\ HookIdle
    /\ OpenIdle
    /\ DumpIdle
    /\ PgDumpIdle
    /\ RestoreIdle
    /\ QuoteIdle
    /\ ClockIdle
    /\ PoolIdle
    /\ InboxIdle
    /\ IndexIdle
    /\ CreateIdle
    /\ BackfillIdle
    /\ SharedIdle

OtherIdle == SetupIdle /\ HookIdle /\ OpenIdle /\ ExtraIdle

\* The schemas a database may have before its first migration.
InitialSchemas == {{}, {"t"}}

Init ==
    /\ history = <<>>
    /\ databases = DbNames
    /\ tables \in { f \in [DbNames -> InitialSchemas] :
                       f["bytebase"] = {} /\ f["aux"] = {} }
    /\ tables0 = tables
    /\ dbOwner = [d \in DbNames |-> "admin"]
    /\ lock = [n \in Namespaces |-> NoProc]
    /\ pc = [p \in Procs |-> "idle"]
    /\ mig = [p \in Procs |-> NoMig]
    /\ loc = [p \in Procs |-> NoLocals]
    /\ ctxDone = [p \in Procs |-> FALSE]
    /\ cancelledRows = {}
    /\ conn = "bytebase"
    /\ execResult = NoCall
    /\ OtherIdle

Next ==
    \/ \E p \in Procs, m \in Migrations : Begin(p, m)
    \/ \E p \in Procs : AcquireLock(p)
    \/ \E p \in Procs : CheckVersion(p)
    \/ \E p \in Procs : NextSequence(p)
    \/ \E p \in Procs : InsertPending(p)
    \/ \E p \in Procs : Cancel(p)
    \/ \E p \in Procs : ExecuteStatement(p)
    \/ \E p \in Procs : Finalize(p)
    \/ \E p \in Procs : ReleaseLock(p)

Spec == Init /\ [][Next]_vars

\* An executor that has the lock runs to its end; calls and cancellations are
\* up to the callers.
Fairness ==
    \A p \in Procs :
        /\ WF_vars(AcquireLock(p))
        /\ WF_vars(CheckVersion(p))
        /\ WF_vars(NextSequence(p))
        /\ WF_vars(InsertPending(p))
        /\ WF_vars(ExecuteStatement(p))
        /\ WF_vars(Finalize(p))
        /\ WF_vars(ReleaseLock(p))

FairNext ==
    \/ \E p \in Procs, m \in FairMigrations : Begin(p, m)
    \/ \E p \in Procs : AcquireLock(p)
    \/ \E p \in Procs : CheckVersion(p)
    \/ \E p \in Procs : NextSequence(p)
    \/ \E p \in Procs : InsertPending(p)
    \/ \E p \in Procs : Cancel(p)
    \/ \E p \in Procs : ExecuteStatement(p)
    \/ \E p \in Procs : Finalize(p)
    \/ \E p \in Procs : ReleaseLock(p)

FairSpec == Init /\ [][FairNext]_vars /\ Fairness

----------------------------------------------------------------------------
(* The specification of direct calls of Execute on one driver *)

ExecScripts ==
    { <<CreateTable("t")>>,
      <<CreateTable("u"), DivideByZero>>,
      <<CreateTable("u"), CreateTable("t")>>,
      <<CreateDatabase("aux"), CreateTable("t")>>,
      <<CreateTable("t"), CreateDatabase("aux"), DivideByZero>>,
      <<Connect("aux"), CreateTable("u")>>,
      <<Connect("app")>>,
      <<AlterOwner("app", "dev"), CreateTable("u"), DivideByZero>>,
      <<BadConnect, CreateTable("t")>>,
      <<CreateTable("u"), Connect("aux")>>,
      <<CreateTable("u"), DropTable("u"), AlterOwner("app", "dev")>>,
      <<Connect("aux"), CreateTable("t"), Connect("app"), DivideByZero,
        CreateDatabase("aux")>> }

DoExecute(script) ==
    LET r == Execute([databases |-> databases, tables |-> tables,
                      dbOwner |-> dbOwner, conn |-> conn], script)
    IN  /\ databases' = r.databases
        /\ tables' = r.tables
        /\ dbOwner' = r.dbOwner
        /\ conn' = r.conn
        /\ execResult' = [script |-> script, err |-> r.err]
        /\ UNCHANGED <<history, tables0, lock, pc, mig, loc, ctxDone, cancelledRows>>
        /\ UNCHANGED otherVars

ExecInit ==
    /\ history = <<>>
    /\ databases \in {{"app", "bytebase"}, DbNames}
    /\ tables \in { f \in [DbNames -> InitialSchemas] :
                       \A d \in DbNames \ databases : f[d] = {} }
    /\ tables0 = tables
    /\ dbOwner = [d \in DbNames |-> "admin"]
    /\ lock = [n \in Namespaces |-> NoProc]
    /\ pc = [p \in Procs |-> "idle"]
    /\ mig = [p \in Procs |-> NoMig]
    /\ loc = [p \in Procs |-> NoLocals]
    /\ ctxDone = [p \in Procs |-> FALSE]
    /\ cancelledRows = {}
    /\ conn \in databases
    /\ execResult = NoCall
    /\ OtherIdle

ExecNext == \E script \in ExecScripts : DoExecute(script)

ExecSpec == ExecInit /\ [][ExecNext]_vars

----------------------------------------------------------------------------
(* The bootstrap of the migration history and its query path *)

\* db.BytebaseDatabase
BytebaseDatabase == "bytebase"

\* The tokens key=value of the DSN of the metadata database of bytebase itself, and one of a user's instance.
BytebaseDSN == {<<"host", "/tmp">>, <<"user", "bb">>}
UserDSN == {<<"host", "db">>, <<"user", "admin">>}

\* The engine call that fails during an operation.
Faults == {"none", "getDatabases", "tables", "getDatabasesInSetup",
           "createDatabase", "migrationSchema"}

\* What an operation returns, next to the driver and the instance it leaves.
Ret(d, err, value) == [d |-> d, err |-> err, value |-> value]

strictUseDb(d) == d.strictDatabase # ""

\* sql.Open connects lazily: the name is taken whether the database exists or not.
switchDatabase(d, dbName) == [d EXCEPT !.conn = dbName]

\* getDatabases: SELECT ... FROM pg_database, on the current connection.
getDatabasesFails(d, failed) == failed \/ d.conn \notin d.databases

hasBytebaseDatabase(d) == BytebaseDatabase \in d.databases

\* util.NeedsSetupMigrationSchema(ctx, driver.db, query): whether the query
\* for the table migration_history finds no row in the connected database.
NeedsSetupMigrationSchema(d, fault) ==
    IF fault = "tables" \/ d.conn \notin d.databases
    THEN Ret(d, "EngineError", FALSE)
    ELSE Ret(d, NoErr, d.conn \notin d.historyTables)

NeedsSetupMigration(d, fault) ==
    IF ~strictUseDb(d)
    THEN IF getDatabasesFails(d, fault = "getDatabases")
         THEN Ret(d, "EngineError", FALSE)
         ELSE IF ~hasBytebaseDatabase(d)
         THEN Ret(d, NoErr, TRUE)
         ELSE NeedsSetupMigrationSchema(switchDatabase(d, BytebaseDatabase), fault)
    ELSE NeedsSetupMigrationSchema(d, fault)

\* SetupMigrationIfNeeded, the block under !driver.strictUseDb(): create the
\* database bytebase when it is absent and switch to it.
CreateAndSwitchToBytebase(d, fault) ==
    IF getDatabasesFails(d, fault = "getDatabasesInSetup")
    THEN Ret(d, "EngineError", FALSE)
    ELSE IF ~hasBytebaseDatabase(d) /\ fault = "createDatabase"
    THEN Ret(d, "EngineError", FALSE)
    ELSE Ret(switchDatabase([d EXCEPT !.databases = @ \cup {BytebaseDatabase}],
                            BytebaseDatabase),
             NoErr, FALSE)

\* driver.db.ExecContext(ctx, migrationSchema): CREATE TABLE migration_history.
ExecMigrationSchema(d, fault) ==
    IF fault = "migrationSchema" \/ d.conn \notin d.databases
    THEN Ret(d, "EngineError", FALSE)
    ELSE Ret([d EXCEPT !.historyTables = @ \cup {d.conn}], NoErr, FALSE)

SetupMigrationIfNeeded(d, fault) ==
    LET r == NeedsSetupMigration(d, fault)
    IN  IF r.err # NoErr THEN Ret(r.d, NoErr, FALSE)
        ELSE IF ~r.value THEN Ret(r.d, NoErr, FALSE)
        ELSE IF ~strictUseDb(r.d)
        THEN LET c == CreateAndSwitchToBytebase(r.d, fault)
             IN  IF c.err # NoErr THEN c ELSE ExecMigrationSchema(c.d, fault)
        ELSE ExecMigrationSchema(r.d, fault)

\* strings.HasPrefix(v.version, util.NonSemanticPrefix)
HasNonSemanticPrefix(v) ==
    /\ Len(v) >= Len(NonSemanticPrefix)
    /\ SubSeq(v, 1, Len(NonSemanticPrefix)) = NonSemanticPrefix

\* The history of a database cannot be queried: no such database or no table.
NoHistoryIn(d, database) ==
    database \notin d.databases \/ database \notin d.historyTables

\* util.ExecuteMigration(ctx, driver, m, statement, databaseName): the row is
\* written in the history of databaseName, the statement runs on the target.
UtilExecuteMigration(d, m, databaseName) ==
    LET d1 == switchDatabase(d, databaseName)
    IN  IF NoHistoryIn(d, databaseName)
        THEN Ret(d1, "EngineError", FALSE)
        ELSE Ret(switchDatabase(
                   [d1 EXCEPT !.storedVersions[databaseName] =
                                  Append(@, ToStoredVersion(m.version)),
                              !.historyAccess = @ \cup {databaseName}],
                   m.namespace),
                 NoErr, TRUE)

ExecuteMigration(d, m) ==
    IF strictUseDb(d)
    THEN UtilExecuteMigration(d, m, d.strictDatabase)
    ELSE UtilExecuteMigration(d, m, BytebaseDatabase)

\* util.FindMigrationHistoryList(ctx, query, params, driver, database, find,
\* baseQuery): the rows of the history of database, their versions decoded.
UtilFindMigrationHistoryList(d, database) ==
    LET d1 == switchDatabase(d, database)
        d2 == [d1 EXCEPT !.historyAccess = @ \cup {database}]
    IN  IF NoHistoryIn(d, database)
        THEN Ret(d1, "EngineError", <<>>)
        ELSE IF \E i \in DOMAIN d.storedVersions[database] :
                    ~HasNonSemanticPrefix(d.storedVersions[database][i])
        THEN Ret(d2, "invalid stored version", <<>>)
        ELSE Ret(d2, NoErr, d.storedVersions[database])

\* fmt.Sprintf("%s%s", util.NonSemanticPrefix, v.version) on the rows that lack the prefix.
Backfill(versions) ==
    [ i \in DOMAIN versions |->
        IF HasNonSemanticPrefix(versions[i])
        THEN versions[i]
        ELSE NonSemanticPrefix \o versions[i] ]

\* sqldb is driver.db in strict database mode.
updateMigrationHistoryStorageVersion_OnDriverDb(d) ==
    LET d1 == IF strictUseDb(d) THEN d ELSE switchDatabase(d, BytebaseDatabase)
    IN  IF NoHistoryIn(d1, d1.conn)
        THEN Ret(d1, "EngineError", <<>>)
        ELSE Ret([d1 EXCEPT !.storedVersions[d1.conn] = Backfill(@),
                            !.historyAccess = @ \cup {d1.conn}],
                 NoErr, <<>>)

\* In strict database mode sqldb stays nil and sqldb.Query panics.
updateMigrationHistoryStorageVersion(d) ==
    IF strictUseDb(d)
    THEN Ret(d, "panic: nil pointer dereference", <<>>)
    ELSE LET d1 == switchDatabase(d, BytebaseDatabase)
         IN  IF NoHistoryIn(d1, BytebaseDatabase)
             THEN Ret(d1, "EngineError", <<>>)
             ELSE Ret([d1 EXCEPT !.storedVersions[BytebaseDatabase] = Backfill(@),
                                 !.historyAccess = @ \cup {BytebaseDatabase}],
                      NoErr, <<>>)

isBytebaseDatabase(d) ==
    <<"user", "bb">> \in d.baseDSN /\ <<"host", "/tmp">> \in d.baseDSN

FindMigrationHistoryList(d) ==
    LET database == IF strictUseDb(d) THEN d.strictDatabase ELSE BytebaseDatabase
        r == UtilFindMigrationHistoryList(d, database)
    IN  IF r.err # NoErr /\ ~isBytebaseDatabase(d)
        THEN IF r.err # "invalid stored version"
             THEN Ret(r.d, r.err, <<>>)
             ELSE LET u == updateMigrationHistoryStorageVersion(r.d)
                  IN  IF u.err # NoErr
                      THEN Ret(u.d, u.err, <<>>)
                      ELSE UtilFindMigrationHistoryList(u.d, BytebaseDatabase)
        ELSE r

\* The driver and the instance, as the operations take them.
TheDriver ==
    [databases |-> databases, conn |-> conn, strictDatabase |-> strictDatabase,
     baseDSN |-> baseDSN, historyTables |-> historyTables,
     storedVersions |-> storedVersions, historyAccess |-> historyAccess]

\* An operation, in which the engine call fault failed, returns r: the driver and the instance are as it leaves them.
Returns(op, fault, r) ==
    /\ databases' = r.d.databases
    /\ conn' = r.d.conn
    /\ historyTables' = r.d.historyTables
    /\ storedVersions' = r.d.storedVersions
    /\ historyAccess' = r.d.historyAccess
    /\ opResult' = [op |-> op, fault |-> fault, err |-> r.err, value |-> r.value]
    /\ UNCHANGED <<strictDatabase, baseDSN>>
    /\ UNCHANGED <<history, tables, tables0, dbOwner, lock, pc, mig, loc, ctxDone,
                   cancelledRows, execResult>>
    /\ UNCHANGED hookVars
    /\ UNCHANGED openVars
    /\ UNCHANGED extraVars

\* The rows a history holds at most.
MaxStored == 2

\* The migrations that are run through the driver.
SetupMigrations ==
    { m \in Migrations : m.namespace = "app" /\ m.statement = <<CreateTable("t")>> }

DoNeedsSetupMigration(fault) ==
    Returns("NeedsSetupMigration", fault, NeedsSetupMigration(TheDriver, fault))

DoSetupMigrationIfNeeded(fault) ==
    Returns("SetupMigrationIfNeeded", fault, SetupMigrationIfNeeded(TheDriver, fault))

DoExecuteMigration(m) ==
    /\ \A d \in DbNames : Len(storedVersions[d]) < MaxStored
    /\ Returns("ExecuteMigration", "none", ExecuteMigration(TheDriver, m))

DoFindMigrationHistoryList ==
    Returns("FindMigrationHistoryList", "none", FindMigrationHistoryList(TheDriver))

\* The migration executor and Execute are not in use.
MigrationIdle ==
    /\ history = <<>>
    /\ tables = [d \in DbNames |-> {}]
    /\ tables0 = tables
    /\ dbOwner = [d \in DbNames |-> "admin"]
    /\ lock = [n \in Namespaces |-> NoProc]
    /\ pc = [p \in Procs |-> "idle"]
    /\ mig = [p \in Procs |-> NoMig]
    /\ loc = [p \in Procs |-> NoLocals]
    /\ ctxDone = [p \in Procs |-> FALSE]
    /\ cancelledRows = {}
    /\ execResult = NoCall

\* The rows a history holds when the driver is opened: none, one of an older
\* release (its version stored as given), or one in the stored form.
InitialVersions == {<<>>, << <<1>> >>, << ToStoredVersion(<<1>>) >>}

\* Open on an instance (strictDatabase empty) or on the database "app" alone.
SetupInit ==
    /\ MigrationIdle
    /\ strictDatabase \in {"", "app"}
    /\ baseDSN \in {BytebaseDSN, UserDSN}
    /\ databases \in {Namespaces, DbNames}
    /\ conn = "app"
    /\ historyTables \in SUBSET ({"app", BytebaseDatabase} \cap databases)
    /\ storedVersions \in { f \in [DbNames -> InitialVersions] :
                              \A d \in DbNames \ historyTables : f[d] = <<>> }
    /\ historyAccess = {}
    /\ opResult = NoOp
    /\ HookIdle
    /\ OpenIdle
    /\ ExtraIdle

SetupNext ==
    \/ \E fault \in Faults : DoNeedsSetupMigration(fault)
    \/ \E fault \in Faults : DoSetupMigrationIfNeeded(fault)
    \/ \E m \in SetupMigrations : DoExecuteMigration(m)
    \/ DoFindMigrationHistoryList

SetupSpec == SetupInit /\ [][SetupNext]_vars

----------------------------------------------------------------------------
(* The push-event webhook, POST /hook/gitlab/:id *)

\* Strings are sequences of characters; a path is a string.

\* strings.HasPrefix(s, prefix)
HasPrefix(s, prefix) ==
    /\ Len(s) >= Len(prefix)
    /\ SubSeq(s, 1, Len(prefix)) = prefix

\* filepath.Ext(path): from the last dot of the last element of path on.
RECURSIVE ExtFrom(_, _)
ExtFrom(path, i) ==
    IF i < 1 \/ path[i] = "/" THEN <<>>
    ELSE IF path[i] = "." THEN SubSeq(path, i, Len(path))
    ELSE ExtFrom(path, i - 1)

Ext(path) == ExtFrom(path, Len(path))

\* The index of the last slash of path at or below i, and 0 when there is none.
RECURSIVE LastSlash(_, _)
LastSlash(path, i) ==
    IF i < 1 THEN 0
    ELSE IF path[i] = "/" THEN i
    ELSE LastSlash(path, i - 1)

\* path without its trailing slashes.
RECURSIVE StripTrailingSlashes(_)
StripTrailingSlashes(path) ==
    IF path # <<>> /\ path[Len(path)] = "/"
    THEN StripTrailingSlashes(SubSeq(path, 1, Len(path) - 1))
    ELSE path

\* filepath.Base(path): the last element of path.
Base(path) ==
    IF path = <<>> THEN <<".">>
    ELSE LET p == StripTrailingSlashes(path)
         IN  IF p = <<>> THEN <<"/">>
             ELSE SubSeq(p, LastSlash(p, Len(p)) + 1, Len(p))

\* strconv.Itoa(n) for n >= 0: the decimal digits of n.
RECURSIVE Itoa(_)
Itoa(n) == IF n < 10 THEN <<n>> ELSE Append(Itoa(n \div 10), n % 10)

DotSql == <<".", "s", "q", "l">>

\* The added paths of the push events: d/a.sql, d/b.sql, d/c.sql, d/z.sql,
\* d/x.sql, d/r.md, e/a.sql and dd/a.sql.
PathA == <<"d", "/", "a">> \o DotSql
PathB == <<"d", "/", "b">> \o DotSql
PathC == <<"d", "/", "c">> \o DotSql
PathZ == <<"d", "/", "z">> \o DotSql
PathX == <<"d", "/", "x">> \o DotSql
PathReadme == <<"d", "/", "r", ".", "m", "d">>
PathOutside == <<"e", "/", "a">> \o DotSql
PathSibling == <<"d", "d", "/", "a">> \o DotSql

\* db.ParseMigrationInfo(filename): the file names a.sql, b.sql, c.sql and
\* z.sql stand for names that parse, to a migration of the database app (a, b),
\* to a baseline of it (c) and to a migration of a database that no project
\* has (z); every other name is invalid.
ParseMigrationInfo(filename) ==
    IF filename = <<"a">> \o DotSql
    THEN [ok |-> TRUE, Database |-> "app", Version |-> <<1>>, Type |-> "MIGRATE",
          Description |-> "add t"]
    ELSE IF filename = <<"b">> \o DotSql
    THEN [ok |-> TRUE, Database |-> "app", Version |-> <<2>>, Type |-> "MIGRATE",
          Description |-> "add u"]
    ELSE IF filename = <<"c">> \o DotSql
    THEN [ok |-> TRUE, Database |-> "app", Version |-> <<1>>, Type |-> "BASELINE",
          Description |-> "baseline"]
    ELSE IF filename = <<"z">> \o DotSql
    THEN [ok |-> TRUE, Database |-> "zzz", Version |-> <<1>>, Type |-> "MIGRATE",
          Description |-> "add t"]
    ELSE [ok |-> FALSE, Database |-> "", Version |-> <<>>, Type |-> "",
          Description |-> ""]

\* The contents of the files of the repository, as gitlab.GET returns them.
FileContents(added) ==
    IF Base(added) = <<"b">> \o DotSql
    THEN <<CreateTable("u"), DivideByZero>>
    ELSE <<CreateTable("t")>>

\* The databases of the project: ComposeDatabaseByFind by (ProjectId, Name).
ProjectDatabases(projectId) == IF projectId = 1 THEN {"app"} ELSE {}

\* The calls that fail while one added path is handled.
FileFaults == {"none", "GET", "ReadAll", "ComposeDatabaseByFind", "time.Parse",
               "CreateIssue"}

\* The issues the issue service holds at most.
MaxIssues == 3

Commit(id, title, added) == [ID |-> id, Title |-> title, AddedList |-> added]

\* pushEvent.CommitList of the events that are delivered.
CommitLists ==
    { <<>>,
      << Commit("c1", "T1", <<PathA, PathReadme>>) >>,
      << Commit("c1", "T1", <<PathX, PathA>>) >>,
      << Commit("c1", "T1", <<PathZ>>), Commit("c2", "T2", <<>>),
         Commit("c3", "T3", <<PathB, PathA>>) >>,
      << Commit("c1", "T1", <<PathA>>), Commit("c2", "T2", <<PathA>>) >>,
      << Commit("c1", "T1", <<PathC>>) >>,
      << Commit("c1", "T1", <<PathSibling, PathOutside>>) >> }

\* The requests: the :id of the URL, the X-Gitlab-Token header, the push
\* event of the body, and whether the repository store fails.
Requests ==
    [endpoint : {"ep1", "ep0"}, token : {"secret", "wrong"},
     ObjectKind : {"push", "tag_push"}, ProjectID : {12, 1},
     CommitList : CommitLists, storeErr : BOOLEAN]

RECURSIVE AddedCount(_)
AddedCount(commits) ==
    IF commits = <<>> THEN 0
    ELSE Len(commits[1].AddedList) + AddedCount(Tail(commits))

\* The X-Gitlab-Token header is not compared with the secret token.
Checks_NoToken(req, repo) ==
    IF req.ObjectKind # "push" THEN 400
    ELSE IF req.endpoint # repo.WebhookEndpointId THEN 404
    ELSE IF req.storeErr THEN 500
    ELSE IF Itoa(req.ProjectID) # repo.ExternalId THEN 400
    ELSE 0

\* The checks before the loop: the status of the error response, 0 when the
\* request passes them all.
Checks(req, repo) ==
    IF req.ObjectKind # "push" THEN 400
    ELSE IF req.endpoint # repo.WebhookEndpointId THEN 404
    ELSE IF req.storeErr THEN 500
    ELSE IF req.token # repo.SecretToken THEN 400
    ELSE IF Itoa(req.ProjectID) # repo.ExternalId THEN 400
    ELSE 0

\* The first commit from i on that has an added path; Len + 1 when none has.
RECURSIVE SkipEmpty(_, _)
SkipEmpty(commits, i) ==
    IF i > Len(commits) THEN i
    ELSE IF commits[i].AddedList # <<>> THEN i
    ELSE SkipEmpty(commits, i + 1)

\* The two range loops: the position after <<c, a>>.
NextPosition(commits, c, a) ==
    IF a < Len(commits[c].AddedList)
    THEN <<c, a + 1>>
    ELSE <<SkipEmpty(commits, c + 1), 1>>

\* What becomes of one added path.
Outcome(repo, added, fault) ==
    IF ~(HasPrefix(added, repo.BaseDirectory) /\ Ext(added) = DotSql)
    THEN "not a migration file"
    ELSE LET mi == ParseMigrationInfo(Base(added))
         IN  IF ~mi.ok THEN "invalid filename"
             ELSE IF fault \in {"GET", "ReadAll"} THEN "read failed"
             ELSE IF \/ fault = "ComposeDatabaseByFind"
                     \/ mi.Database \notin ProjectDatabases(repo.ProjectId)
             THEN "no database"
             ELSE IF fault = "CreateIssue" THEN "create failed"
             ELSE "created"

\* api.IssueCreate with its pipeline of one stage of one task.
IssueCreate(repo, commit, added) ==
    LET mi == ParseMigrationInfo(Base(added))
    IN  [Name |-> commit.Title,
         Type |-> "IssueDatabaseSchemaUpdate",
         ProjectId |-> repo.ProjectId,
         TaskList |->
           << [Database |-> mi.Database,
               Name |-> mi.Description,
               Status |-> "PENDING",
               Type |-> "TaskDatabaseSchemaUpdate",
               Statement |-> FileContents(added),
               Added |-> added,
               CommitID |-> commit.ID] >>]

\* fmt.Sprintf("Created issue '%s' on adding %s", issue.Name, filename)
CreatedMessage(name, filename) ==
    <<"Created issue '", name, "' on adding ">> \o filename

\* strings.Join(list, "\n")
RECURSIVE Join(_)
Join(list) ==
    IF list = <<>> THEN <<>>
    ELSE IF Len(list) = 1 THEN list[1]
    ELSE list[1] \o <<"\n">> \o Join(Tail(list))

\* The handler returns with an error instead of going on with the next path.
Continue_Return == "return"

\* continue: the handler goes on with the next added path.
Continue == "loop"

\* The handler is called with a request and runs up to the loop.
Receive(req) ==
    /\ hookPc = "idle"
    /\ Len(issues) + AddedCount(req.CommitList) <= MaxIssues
    /\ request' = req
    /\ createdMessageList' = <<>>
    /\ processed' = {}
    /\ issues0' = Len(issues)
    /\ LET code == Checks(req, repository)
       IN  IF code # 0
           THEN /\ response' = [code |-> code, body |-> <<>>]
                /\ hookPc' = "idle"
                /\ ci' = 0
                /\ ai' = 0
           ELSE /\ response' = NoResponse
                /\ hookPc' = "loop"
                /\ ci' = SkipEmpty(req.CommitList, 1)
                /\ ai' = 1
    /\ UNCHANGED <<repository, issues, taskStarted>>
    /\ UNCHANGED setupVars
    /\ UNCHANGED openVars
    /\ UNCHANGED extraVars
    /\ UNCHANGED <<history, tables, tables0, databases, dbOwner, lock, pc, mig, loc,
                   ctxDone, cancelledRows, conn, execResult>>

\* One iteration of the inner loop, on commit.AddedList[ai] of CommitList[ci].
HandleAdded(fault) ==
    /\ hookPc = "loop"
    /\ ci <= Len(request.CommitList)
    /\ LET commit == request.CommitList[ci]
           added == commit.AddedList[ai]
           outcome == Outcome(repository, added, fault)
           next == NextPosition(request.CommitList, ci, ai)
       IN  /\ IF outcome = "created"
              THEN /\ issues' = Append(issues, IssueCreate(repository, commit, added))
                   /\ createdMessageList' =
                        Append(createdMessageList,
                               CreatedMessage(commit.Title, Base(added)))
              ELSE UNCHANGED <<issues, createdMessageList>>
           /\ hookPc' = IF outcome \in {"created", "not a migration file"}
                        THEN "loop"
                        ELSE Continue
           /\ processed' = processed \cup {<<ci, ai>>}
           /\ ci' = next[1]
           /\ ai' = next[2]
    /\ UNCHANGED <<repository, request, issues0, response, taskStarted>>
    /\ UNCHANGED setupVars
    /\ UNCHANGED openVars
    /\ UNCHANGED extraVars
    /\ UNCHANGED <<history, tables, tables0, databases, dbOwner, lock, pc, mig, loc,
                   ctxDone, cancelledRows, conn, execResult>>

\* return c.String(http.StatusOK, strings.Join(createdMessageList, "\n"))
Respond ==
    /\ hookPc = "loop"
    /\ ci > Len(request.CommitList)
    /\ response' = [code |-> 200, body |-> Join(createdMessageList)]
    /\ hookPc' = "idle"
    /\ UNCHANGED <<repository, request, ci, ai, createdMessageList, processed, issues,
                   issues0, taskStarted>>
    /\ UNCHANGED setupVars
    /\ UNCHANGED openVars
    /\ UNCHANGED extraVars
    /\ UNCHANGED <<history, tables, tables0, databases, dbOwner, lock, pc, mig, loc,
                   ctxDone, cancelledRows, conn, execResult>>

\* The repository of the endpoint: its base directory is d or d/.
Repositories ==
    [WebhookEndpointId : {"ep1"}, SecretToken : {"secret"}, ExternalId : {<<1, 2>>},
     BaseDirectory : {<<"d">>, <<"d", "/">>}, ProjectId : {1}]

HookInit ==
    /\ MigrationIdle
    /\ databases = DbNames
    /\ conn = BytebaseDatabase
    /\ SetupIdle
    /\ repository \in Repositories
    /\ hookPc = "idle"
    /\ request = NoRequest
    /\ ci = 0
    /\ ai = 0
    /\ createdMessageList = <<>>
    /\ processed = {}
    /\ issues = <<>>
    /\ issues0 = 0
    /\ response = NoResponse
    /\ taskStarted = {}
    /\ OpenIdle
    /\ ExtraIdle

HookNext ==
    \/ \E req \in Requests : Receive(req)
    \/ \E fault \in FileFaults : HandleAdded(fault)
    \/ Respond

HookSpec == HookInit /\ [][HookNext]_vars

----------------------------------------------------------------------------
(* The tasks of the issues, run through the migration executor *)

\* The migration of a task: its descriptor is parsed from the name of the
\* added file, its statement is the statement of the task.
TaskMigration(issue) ==
    LET task == issue.TaskList[1]
        mi == ParseMigrationInfo(Base(task.Added))
    IN  [namespace |-> mi.Database, type |-> mi.Type, version |-> mi.Version,
         statement |-> task.Statement]

\* The task of issue k is started: ExecuteMigration is called with its migration.
RunTask(p, k) ==
    /\ k \in DOMAIN issues
    /\ k \notin taskStarted
    /\ pc[p] = "idle"
    /\ Len(history) + Cardinality(BeforeInsert) < MaxRows
    /\ mig' = [mig EXCEPT ![p] = TaskMigration(issues[k])]
    /\ pc' = [pc EXCEPT ![p] = "waiting"]
    /\ taskStarted' = taskStarted \cup {k}
    /\ UNCHANGED <<history, tables, tables0, databases, dbOwner, lock, loc, ctxDone,
                   cancelledRows, conn, execResult>>
    /\ UNCHANGED setupVars
    /\ UNCHANGED openVars
    /\ UNCHANGED extraVars
    /\ UNCHANGED <<repository, hookPc, request, ci, ai, createdMessageList, processed,
                   issues, issues0, response>>

\* The deliveries of the events of the repository: they pass the checks.
PipelineRequests ==
    { req \in Requests :
        /\ Checks(req, [WebhookEndpointId |-> "ep1", SecretToken |-> "secret",
                        ExternalId |-> <<1, 2>>]) = 0
        /\ req.CommitList \in
             { << Commit("c1", "T1", <<PathA>>), Commit("c2", "T2", <<PathA>>) >>,
               << Commit("c1", "T1", <<PathC>>) >>,
               << Commit("c1", "T1", <<PathX, PathA>>) >> } }

PipelineInit ==
    /\ history = <<>>
    /\ databases = DbNames
    /\ tables \in { f \in [DbNames -> InitialSchemas] :
                       f["bytebase"] = {} /\ f["aux"] = {} }
    /\ tables0 = tables
    /\ dbOwner = [d \in DbNames |-> "admin"]
    /\ lock = [n \in Namespaces |-> NoProc]
    /\ pc = [p \in Procs |-> "idle"]
    /\ mig = [p \in Procs |-> NoMig]
    /\ loc = [p \in Procs |-> NoLocals]
    /\ ctxDone = [p \in Procs |-> FALSE]
    /\ cancelledRows = {}
    /\ conn = BytebaseDatabase
    /\ execResult = NoCall
    /\ SetupIdle
    /\ HookIdle
    /\ OpenIdle
    /\ ExtraIdle

PipelineNext ==
    \/ \E req \in PipelineRequests : Receive(req)
    \/ \E fault \in FileFaults : HandleAdded(fault)
    \/ Respond
    \/ \E p \in Procs, k \in 1..(MaxIssues + 1) : RunTask(p, k)
    \/ \E p \in Procs : AcquireLock(p)
    \/ \E p \in Procs : CheckVersion(p)
    \/ \E p \in Procs : NextSequence(p)
    \/ \E p \in Procs : InsertPending(p)
    \/ \E p \in Procs : Cancel(p)
    \/ \E p \in Procs : ExecuteStatement(p)
    \/ \E p \in Procs : Finalize(p)
    \/ \E p \in Procs : ReleaseLock(p)

PipelineSpec == PipelineInit /\ [][PipelineNext]_vars

----------------------------------------------------------------------------
(* Driver.Open and guessDSN *)

\* The connection arguments that do not vary.
Username == "admin"
Password == "pw"
Host == "db"
Port == "5432"

\* The tokens key=value of the DSN without dbname: those with a value.
DsnTokens(config) ==
    LET m == { <<"host", Host>>, <<"port", Port>>, <<"user", Username>>,
               <<"password", Password>> }
        ssl == IF config.SslCA = "" THEN {}
               ELSE { <<"sslmode", "verify-ca">>, <<"sslrootcert", config.SslCA>> }
                    \cup IF config.SslCert # "" /\ config.SslKey # ""
                         THEN { <<"sslcert", config.SslCert>>,
                                <<"sslkey", config.SslKey>> }
                         ELSE {}
    IN  { tok \in m \cup ssl : tok[2] # "" }

\* postgres comes before bytebase.
Guesses_PostgresFirst(database) ==
    IF database # "" THEN <<database>>
    ELSE <<"", "postgres", "bytebase", "template1">>

\* guesses: the database that was given, or else the databases to guess.
Guesses(database) ==
    IF database # "" THEN <<database>>
    ELSE <<"", "bytebase", "postgres", "template1">>

\* The loop over guesses from guesses[i] on; accepts holds the guesses whose
\* sql.Open and Ping succeed, tried the guesses that failed before.
RECURSIVE TryGuesses(_, _, _, _, _)
TryGuesses(guesses, i, dsn, accepts, tried) ==
    IF i > Len(guesses)
    THEN [found |-> FALSE, guess |-> "", dsn |-> {}, attempts |-> tried]
    ELSE LET guess == guesses[i]
             guessDSN == IF guess # "" THEN dsn \cup {<<"dbname", guess>>} ELSE dsn
         IN  IF guess \in accepts
             THEN [found |-> TRUE, guess |-> guess, dsn |-> guessDSN,
                   attempts |-> Append(tried, guess)]
             ELSE TryGuesses(guesses, i + 1, dsn, accepts, Append(tried, guess))

guessDSN(config, accepts) ==
    LET r == TryGuesses(Guesses(config.Database), 1, DsnTokens(config), accepts, <<>>)
    IN  IF r.found
        THEN [databaseName |-> r.guess, dsn |-> r.dsn, err |-> NoErr,
              attempts |-> r.attempts]
        ELSE [databaseName |-> "", dsn |-> {},
              err |-> IF config.Database # ""
                      THEN "cannot connecting database"
                      ELSE "cannot connecting instance",
              attempts |-> r.attempts]

\* Only a certificate without a key is refused.
TLSMismatch_CertOnly(config) == config.SslCert # "" /\ config.SslKey = ""

\* Exactly one of ssl-cert and ssl-key is set.
TLSMismatch(config) ==
    \/ config.SslCert = "" /\ config.SslKey # ""
    \/ config.SslCert # "" /\ config.SslKey = ""

\* The driver does not change.
DriverUnchanged ==
    UNCHANGED <<conn, baseDSN, strictDatabase, driverDb, driverConfig>>

\* Open(ctx, dbType, config, connCtx), where the databases of accepts accept
\* a ping.
Open(config, accepts) ==
    /\ openCall' = [config |-> config, accepts |-> accepts]
    /\ IF TLSMismatch(config)
       THEN /\ openErr' = "ssl-cert and ssl-key must be both set or unset"
            /\ attempts' = <<>>
            /\ DriverUnchanged
       ELSE LET g == guessDSN(config, accepts)
                dsn == IF config.ReadOnly
                       THEN g.dsn \cup {<<"default_transaction_read_only", "true">>}
                       ELSE g.dsn
            IN  /\ attempts' = g.attempts
                /\ openErr' = g.err
                /\ IF g.err # NoErr
                   THEN DriverUnchanged
                   ELSE /\ conn' = g.databaseName
                        /\ baseDSN' = dsn
                        /\ driverConfig' = config
                        /\ strictDatabase' = IF config.StrictUseDb
                                             THEN config.Database
                                             ELSE strictDatabase
                        /\ driverDb' = dsn
    /\ UNCHANGED <<historyTables, storedVersions, historyAccess, opResult>>
    /\ UNCHANGED hookVars
    /\ UNCHANGED extraVars
    /\ UNCHANGED <<history, tables, tables0, databases, dbOwner, lock, pc, mig, loc,
                   ctxDone, cancelledRows, execResult>>

\* newDriver(config): a driver that was not opened.
NewDriver ==
    /\ conn' = ""
    /\ baseDSN' = {}
    /\ strictDatabase' = ""
    /\ openCall' = NoOpenCall
    /\ attempts' = <<>>
    /\ openErr' = NoErr
    /\ driverDb' = {}
    /\ driverConfig' = NoConfig
    /\ UNCHANGED <<historyTables, storedVersions, historyAccess, opResult>>
    /\ UNCHANGED hookVars
    /\ UNCHANGED extraVars
    /\ UNCHANGED <<history, tables, tables0, databases, dbOwner, lock, pc, mig, loc,
                   ctxDone, cancelledRows, execResult>>

\* The configurations Open is called with: read-only connections are those
\* with a CA, strict database mode comes with a database.
Configs ==
    { c \in [Database : {"", "app"}, SslCA : {"", "ca.pem"},
              SslCert : {"", "cert.pem"}, SslKey : {"", "key.pem"},
              ReadOnly : BOOLEAN, StrictUseDb : BOOLEAN] :
        /\ c.ReadOnly = (c.SslCA # "")
        /\ c.StrictUseDb => c.Database # "" }

\* The databases that may accept a ping when config is used ("" is the
\* server-level connection).
Pingable(config) ==
    IF config.Database # ""
    THEN {config.Database}
    ELSE {"", "bytebase", "postgres", "template1"}

OpenInit ==
    /\ MigrationIdle
    /\ databases = DbNames
    /\ conn = ""
    /\ strictDatabase = ""
    /\ baseDSN = {}
    /\ historyTables = {}
    /\ storedVersions = [d \in DbNames |-> <<>>]
    /\ historyAccess = {}
    /\ opResult = NoOp
    /\ HookIdle
    /\ OpenIdle
    /\ ExtraIdle

OpenNext ==
    \/ \E config \in Configs :
          \E accepts \in SUBSET Pingable(config) : Open(config, accepts)
    \/ NewDriver

OpenSpec == OpenInit /\ [][OpenNext]_vars


----------------------------------------------------------------------------
(* Driver.Dump and dumpOneDatabaseWithPgDump *)

\* The lines pg_dump writes for one database, at most.
MaxLines == 3

systemDatabases == {"template0", "template1"}

\* "SET SESSION AUTHORIZATION "
SetSessionAuthorization ==
    <<"S", "E", "T", " ", "S", "E", "S", "S", "I", "O", "N", " ",
      "A", "U", "T", "H", "O", "R", "I", "Z", "A", "T", "I", "O", "N", " ">>

\* Lines of pg_dump's output, as sequences of characters.
EmptyLine == <<>>
CommentLine == <<"-", "-", " ", "c">>
StatementLine == <<"S", ";">>
AuthorizationLine == SetSessionAuthorization \o <<"x", ";">>

Lines == {EmptyLine, CommentLine, StatementLine, AuthorizationLine}

\* What getDatabases returns: the rows of pg_database, in the order of the query.
DatabaseLists ==
    { <<"template0", "template1">>,
      <<"app", "template1">>,
      <<"template0", "app", "shop">> }

\* The argument database of Dump.
DumpArguments == {"", "app", "template1", "nope"}

\* The calls of Dump that return an error.
DumpFaults == {"none", "getDatabases"}

\* The calls of dumpOneDatabaseWithPgDump that return an error.
StreamFaults == {"none", "io.WriteString", "cmd.Wait"}

\* The elements of s, in order.
Range(s) == { s[i] : i \in 1..Len(s) }

\* The databases that Dump dumps, or the error it returns before dumping.
Dumpable(database, dbs) ==
    IF database # ""
    THEN IF database \in Range(dbs)
         THEN [err |-> NoErr, names |-> <<database>>]
         ELSE [err |-> "database not found", names |-> <<>>]
    ELSE [err |-> NoErr,
          names |-> SelectSeq(dbs, LAMBDA n : n \notin systemDatabases)]

\* The argument includeUseDatabase that Dump passes for every database.
includeUseDatabase(names) == Len(names) > 1

\* What dumpOneDatabaseWithPgDump has written when it starts to scan the
\* output of pg_dump: it does not read its argument includeUseDatabase.
BeforeScan(written, database, useDatabase) == written

\* No empty line is skipped for following an empty line.
SkipExtraEmpty_Never(line, previousEmpty) == FALSE

\* "Skip extra empty lines."
SkipExtraEmpty(line, previousEmpty) == line = EmptyLine /\ previousEmpty

\* One iteration of the loop over s.Scan(): whether line is written, and the
\* two flags after it.
FilterLine(line, previousComment, previousEmpty) ==
    IF HasPrefix(line, SetSessionAuthorization)
    THEN [write |-> FALSE, comment |-> previousComment, empty |-> previousEmpty]
    ELSE IF HasPrefix(line, <<"-", "-">>)
    THEN [write |-> FALSE, comment |-> TRUE, empty |-> previousEmpty]
    ELSE IF previousComment /\ line = EmptyLine
    THEN [write |-> FALSE, comment |-> FALSE, empty |-> previousEmpty]
    ELSE IF SkipExtraEmpty(line, previousEmpty)
    THEN [write |-> FALSE, comment |-> FALSE, empty |-> previousEmpty]
    ELSE [write |-> TRUE, comment |-> FALSE, empty |-> (line = EmptyLine)]


\* Dump(ctx, database, out, schemaOnly) up to the first call of
\* dumpOneDatabaseWithPgDump, with a writer that nothing was written to;
\* getDatabases returns dbs.
DumpStart(database, dbs, fault) ==
    /\ dumpPc \in {"idle", "done"}
    /\ LET r == IF fault = "getDatabases"
                THEN [err |-> "failed to get databases", names |-> <<>>]
                ELSE Dumpable(database, dbs)
       IN  /\ dumpableDbNames' = r.names
           /\ dumpErr' = r.err
           /\ IF r.names = <<>>
              THEN /\ dumpPc' = "done"
                   /\ dbIndex' = 0
                   /\ dumpOut' = <<>>
                   /\ sectionStart' = <<>>
              ELSE /\ dumpPc' = "scan"
                   /\ dbIndex' = 1
                   /\ dumpOut' = BeforeScan(<<>>, r.names[1], includeUseDatabase(r.names))
                   /\ sectionStart' = <<1>>
    /\ scanned' = <<>>
    /\ previousLineComment' = FALSE
    /\ previousLineEmpty' = FALSE
    /\ DumpFrame

\* s.Scan() returns line: one iteration of the loop.
Scan(line, fault) ==
    /\ dumpPc = "scan"
    /\ Len(scanned) < MaxLines
    /\ fault \in {"none", "io.WriteString"}
    /\ scanned' = Append(scanned, line)
    /\ LET f == FilterLine(line, previousLineComment, previousLineEmpty)
       IN  /\ previousLineComment' = f.comment
           /\ previousLineEmpty' = f.empty
           /\ IF f.write /\ fault = "io.WriteString"
              THEN /\ dumpErr' = "write failed"
                   /\ dumpPc' = "done"
                   /\ UNCHANGED dumpOut
              ELSE /\ dumpOut' = IF f.write THEN Append(dumpOut, line) ELSE dumpOut
                   /\ UNCHANGED <<dumpErr, dumpPc>>
    /\ UNCHANGED <<dumpableDbNames, dbIndex, sectionStart>>
    /\ DumpFrame

\* s.Scan() returns false: cmd.Wait, and the next database or the return of
\* Dump.
EndOfStream(fault) ==
    /\ dumpPc = "scan"
    /\ fault \in {"none", "cmd.Wait"}
    /\ IF fault = "cmd.Wait"
       THEN /\ dumpErr' = "exit status 1"
            /\ dumpPc' = "done"
            /\ UNCHANGED <<dbIndex, dumpOut, sectionStart, scanned,
                           previousLineComment, previousLineEmpty>>
       ELSE IF dbIndex < Len(dumpableDbNames)
       THEN /\ dbIndex' = dbIndex + 1
            /\ dumpOut' = BeforeScan(dumpOut, dumpableDbNames[dbIndex + 1],
                                     includeUseDatabase(dumpableDbNames))
            /\ sectionStart' = Append(sectionStart, Len(dumpOut) + 1)
            /\ scanned' = <<>>
            /\ previousLineComment' = FALSE
            /\ previousLineEmpty' = FALSE
            /\ UNCHANGED <<dumpErr, dumpPc>>
       ELSE /\ dumpPc' = "done"
            /\ UNCHANGED <<dumpErr, dbIndex, dumpOut, sectionStart, scanned,
                           previousLineComment, previousLineEmpty>>
    /\ UNCHANGED dumpableDbNames
    /\ DumpFrame

DumpInit ==
    /\ MigrationIdle
    /\ databases = DbNames
    /\ conn = ""
    /\ SetupIdle
    /\ HookIdle
    /\ OpenIdle
    /\ ExtraIdle

DumpNext ==
    \/ \E database \in DumpArguments, dbs \in DatabaseLists, fault \in DumpFaults :
          DumpStart(database, dbs, fault)
    \/ \E line \in Lines, fault \in StreamFaults : Scan(line, fault)
    \/ \E fault \in StreamFaults : EndOfStream(fault)

DumpSpec == DumpInit /\ [][DumpNext]_vars


----------------------------------------------------------------------------
(* The command that dumpOneDatabaseWithPgDump runs *)

\* The runs of pg_dump that are compared.
Runs == {1, 2}

\* The driver.config and driver.pgInstanceDir of the driver that dumps.
PgDumpConfigs ==
    [Username : {Username}, Password : {"", "pw", "pw2"}, Host : {Host},
     Port : {Port}, PgInstanceDir : {"/opt/pg"}]

\* fmt.Sprintf(format, value) with one %s at the end of format, and the
\* arguments that are not formatted, as pairs of a text and a value.
Sprintf(format, value) == <<format, value>>
Plain(arg) == <<arg, "">>

\* The command line passes the password too.
PgDumpArgs_WithPassword(config, database, schemaOnly) ==
    <<Sprintf("--username=", config.Username),
      Sprintf("--password=", config.Password),
      Sprintf("--host=", config.Host), Sprintf("--port=", config.Port),
      Plain("--inserts"), Plain("--use-set-session-authorization"),
      Plain(database)>>

\* args of dumpOneDatabaseWithPgDump.
PgDumpArgs(config, database, schemaOnly) ==
    <<Sprintf("--username=", config.Username)>>
    \o (IF config.Password = "" THEN <<Plain("--no-password")>> ELSE <<>>)
    \o <<Sprintf("--host=", config.Host), Sprintf("--port=", config.Port)>>
    \o (IF schemaOnly THEN <<Plain("--schema-only")>> ELSE <<>>)
    \o <<Plain("--inserts"), Plain("--use-set-session-authorization"),
         Plain(database)>>

\* cmd.Env of dumpOneDatabaseWithPgDump.
PgDumpEnv(config) ==
    IF config.Password # "" THEN {Sprintf("PGPASSWORD=", config.Password)} ELSE {}

\* exec.Command(pgDumpPath, args...) and cmd.Start() of run i.
StartPgDump(i, config, database, schemaOnly) ==
    /\ pgDumpRuns' =
         [pgDumpRuns EXCEPT ![i] =
            [config |-> config, database |-> database, schemaOnly |-> schemaOnly,
             path |-> <<config.PgInstanceDir, "bin", "pg_dump">>,
             args |-> PgDumpArgs(config, database, schemaOnly),
             env |-> PgDumpEnv(config)]]
    /\ PgDumpFrame

PgDumpInit ==
    /\ MigrationIdle
    /\ databases = DbNames
    /\ conn = ""
    /\ OtherIdle

PgDumpNext ==
    \E i \in Runs, config \in PgDumpConfigs, database \in {"app", "shop"},
       schemaOnly \in BOOLEAN :
        StartPgDump(i, config, database, schemaOnly)

PgDumpSpec == PgDumpInit /\ [][PgDumpNext]_vars


----------------------------------------------------------------------------
(* Driver.Restore *)

\* The scripts that Restore reads.
RestoreScripts ==
    { <<CreateTable("t")>>,
      <<CreateTable("t"), CreateTable("u")>>,
      <<CreateTable("u"), DivideByZero>>,
      <<CreateTable("u"), CreateTable("u")>>,
      <<CreateTable("t"), CreateDatabase("aux")>>,
      <<CreateTable("t"), CreateTable("u"), DivideByZero>> }

\* The calls of Restore that may return an error whatever the script is.
RestoreFaults == {"none", "BeginTx", "Commit"}

\* The tables stay as the transaction left them.
RestoreOutcome_Partial(before, txn, committed) == txn.tables

\* What the database holds when Restore returns: the work of txn when it
\* committed, and what it held before (defer txn.Rollback()) when not.
RestoreOutcome(before, txn, committed) ==
    IF committed THEN txn.tables ELSE Rollback(before, txn.tables)

\* Restore(ctx, sc) up to the call of ApplyMultiStatements: driver.db.BeginTx.
RestoreBegin(script, fault) ==
    /\ restorePc \in {"idle", "done"}
    /\ fault \in {"none", "BeginTx"}
    /\ restoreScript' = script
    /\ restoreIdx' = 0
    /\ restoreBefore' = tables[conn]
    /\ restoreTxn' = [tables |-> tables[conn], err |-> NoErr]
    /\ IF fault = "BeginTx"
       THEN restorePc' = "done" /\ restoreErr' = "ConnectionError"
       ELSE restorePc' = "exec" /\ restoreErr' = NoErr
    /\ UNCHANGED tables
    /\ RestoreFrame

\* f(stmt) for the next statement that ApplyMultiStatements yields: txn.Exec.
RestoreExec ==
    /\ restorePc = "exec"
    /\ restoreTxn.err = NoErr
    /\ restoreIdx < Len(restoreScript)
    /\ restoreIdx' = restoreIdx + 1
    /\ restoreTxn' = ExecInTx(restoreTxn, restoreScript[restoreIdx + 1])
    /\ UNCHANGED <<tables, restorePc, restoreScript, restoreBefore, restoreErr>>
    /\ RestoreFrame

\* The return of Restore: with the error of f, or after txn.Commit.
RestoreReturn(fault) ==
    /\ restorePc = "exec"
    /\ restoreTxn.err # NoErr \/ restoreIdx = Len(restoreScript)
    /\ fault \in {"none", "Commit"}
    /\ restoreTxn.err # NoErr => fault = "none"
    /\ LET err == IF restoreTxn.err # NoErr THEN restoreTxn.err
                  ELSE IF fault = "Commit" THEN "ConnectionError"
                  ELSE NoErr
       IN  /\ restoreErr' = err
           /\ tables' = [tables EXCEPT
                           ![conn] = RestoreOutcome(restoreBefore, restoreTxn,
                                                    err = NoErr)]
    /\ restorePc' = "done"
    /\ UNCHANGED <<restoreScript, restoreIdx, restoreTxn, restoreBefore>>
    /\ RestoreFrame

\* The driver is connected to one of two databases, which hold no table yet.
RestoreInit ==
    /\ MigrationIdle
    /\ databases = DbNames
    /\ conn \in Namespaces
    /\ OtherIdle

RestoreNext ==
    \/ \E script \in RestoreScripts, fault \in RestoreFaults :
          RestoreBegin(script, fault)
    \/ RestoreExec
    \/ \E fault \in RestoreFaults : RestoreReturn(fault)

RestoreSpec == RestoreInit /\ [][RestoreNext]_vars


----------------------------------------------------------------------------
(* quoteIdentifier *)

\* The characters an identifier has at most.
MaxIdent == 3

\* The characters of the identifiers: two lower-case letters, an upper-case
\* letter, the long s (U+017F), and one of each other kind.
LongS == "U+017F"
DoubleQuote == "\""
IdentChars == {"a", "s", "S", LongS, "_", "1", "$", DoubleQuote, " "}

\* The strings over chars of length n, and of length up to n.
RECURSIVE StringsOfLen(_, _)
StringsOfLen(chars, n) ==
    IF n = 0 THEN {<<>>}
    ELSE { Append(s, c) : s \in StringsOfLen(chars, n - 1), c \in chars }

StringsUpTo(chars, n) == UNION { StringsOfLen(chars, k) : k \in 0..n }

\* unicode.ToUpper of one character, and strings.ToUpper.
ToUpperChar(c) ==
    CASE c = "a" -> "A"
      [] c = "s" -> "S"
      [] c = LongS -> "S"
      [] OTHER -> c

ToUpper(s) == [i \in 1..Len(s) |-> ToUpperChar(s[i])]

\* The keywords of the map reserved that the characters can spell.
reserved == { <<"A", "S">> }

\* [a-z] and [0-9] under the flag (?i): the letters, their upper case, and the
\* characters that fold to a letter (the long s folds to s).
FoldLetters == {"a", "s", "S", LongS}
Digits == {"1"}

\* The pattern without its anchor $: only a prefix of s has to match.
identMatchString_Unanchored(s) ==
    /\ Len(s) >= 1
    /\ s[1] \in FoldLetters \cup {"_"}

\* ident.MatchString(s), ident = (?i)^[a-z_][a-z0-9_$]*$
identMatchString(s) ==
    /\ Len(s) >= 1
    /\ s[1] \in FoldLetters \cup {"_"}
    /\ \A i \in 2..Len(s) : s[i] \in FoldLetters \cup Digits \cup {"_", "$"}

\* strings.ReplaceAll(s, "\"", "\"\"")
RECURSIVE DoubleQuotes(_)
DoubleQuotes(s) ==
    IF s = <<>> THEN <<>>
    ELSE (IF Head(s) = DoubleQuote THEN <<DoubleQuote, DoubleQuote>> ELSE <<Head(s)>>)
         \o DoubleQuotes(Tail(s))

quoteIdentifier(s) ==
    IF ToUpper(s) \in reserved \/ ~identMatchString(s)
    THEN <<DoubleQuote>> \o DoubleQuotes(s) \o <<DoubleQuote>>
    ELSE s

\* The text of a delimited identifier with its doubled double quotes undone.
RECURSIVE Undouble(_)
Undouble(s) ==
    IF Len(s) >= 2 /\ s[1] = DoubleQuote /\ s[2] = DoubleQuote
    THEN <<DoubleQuote>> \o Undouble(SubSeq(s, 3, Len(s)))
    ELSE IF s = <<>> THEN <<>>
    ELSE <<Head(s)>> \o Undouble(Tail(s))

\* quoteIdentifier on the identifier, and then on what it returned.
ApplyQuote ==
    /\ Len(quoteResults) < 2
    /\ quoteResults' =
         Append(quoteResults,
                quoteIdentifier(IF quoteResults = <<>> THEN quoteArg
                                ELSE quoteResults[Len(quoteResults)]))
    /\ UNCHANGED quoteArg
    /\ QuoteFrame

QuoteInit ==
    /\ MigrationIdle
    /\ databases = DbNames
    /\ conn = ""
    /\ QuoteOthersIdle
    /\ quoteArg \in StringsUpTo(IdentChars, MaxIdent)
    /\ quoteResults = <<>>

QuoteNext == ApplyQuote

QuoteSpec == QuoteInit /\ [][QuoteNext]_vars


----------------------------------------------------------------------------
(* The timestamps of the history and the order of FindMigrationHistoryList *)

\* The seconds that pass at most.
MaxNow == 1

\* A second passes on the database server.
Tick ==
    /\ now < MaxNow
    /\ now' = now + 1
    /\ UNCHANGED found
    /\ ClockFrame

\* The ids of the rows of h that the filter find.Database = namespace keeps.
RowIdsOf(h, namespace) == { i \in DOMAIN h : h[i].namespace = namespace }

\* The sequences that hold every element of S once.
Orderings(S) ==
    { f \in [1..Cardinality(S) -> S] : \A i, j \in DOMAIN f : f[i] = f[j] => i = j }

\* ORDER BY created_ts ASC
OrderByCreatedTs_Asc(h, ids) ==
    { f \in Orderings(ids) :
        \A i, j \in DOMAIN f : i < j => h[f[i]].created_ts <= h[f[j]].created_ts }

\* ORDER BY created_ts DESC: the orders that the query may return the rows in.
OrderByCreatedTs(h, ids) ==
    { f \in Orderings(ids) :
        \A i, j \in DOMAIN f : i < j => h[f[i]].created_ts >= h[f[j]].created_ts }

\* FindMigrationHistoryList(ctx, find) with find.Database = namespace; the
\* query returns the rows in order.
FindHistory(namespace, order) ==
    /\ order \in OrderByCreatedTs(history, RowIdsOf(history, namespace))
    /\ order # found
    /\ found' = order
    /\ UNCHANGED now
    /\ ClockFrame

\* The migrations of FairMigrations, the clock and the reads of the history.
ClockNext ==
    \/ FairNext
    \/ Tick
    \/ \E order \in Orderings(RowIdsOf(history, "app")) : FindHistory("app", order)

ClockSpec == Init /\ [][ClockNext]_vars

----------------------------------------------------------------------------
(* The connection pools of a driver *)

\* The pools that sql.Open returns at most.
MaxPools == 8

\* The databases that Open and switchDatabase are called with.
PoolDatabases == {"", "app"}

\* The errors that db.Close() and sql.Open may return in switchDatabase.
SwitchFaults == {"none", "Close", "Open"}

\* sql.Open(driverName, dsn + " dbname=" + database): a pool that is open.
NewPool(database) == [database |-> database, state |-> "open"]

\* The pool is left open.
ClosePool_Leak(pools, id) == pools

\* db.Close(): the pool id is closed, whatever Close returns.
ClosePool(pools, id) == [pools EXCEPT ![id].state = "closed"]

\* The deferred db.Close() calls of guessDSN, which run when it returns.
RECURSIVE RunDeferred(_, _)
RunDeferred(pools, ids) ==
    IF ids = <<>> THEN pools
    ELSE RunDeferred(ClosePool(pools, ids[Len(ids)]), SubSeq(ids, 1, Len(ids) - 1))

\* The pools that are open.
OpenPools == { id \in DOMAIN sqlPools : sqlPools[id].state = "open" }

\* Open calls guessDSN(..., database, ...).
StartGuess(database) ==
    /\ poolPc = "new"
    /\ poolPc' = IF database # "" THEN "guess" ELSE "guesses"
    /\ guessIdx' = 1
    /\ UNCHANGED <<sqlPools, deferred, dbPool, poolErr>>
    /\ PoolFrame

\* The guesses of the call in progress.
PoolGuesses == Guesses(IF poolPc = "guess" THEN "app" ELSE "")

\* One turn of the loop of guessDSN: sql.Open, defer db.Close(), db.Ping();
\* on a ping that succeeds guessDSN returns and Open goes on to its sql.Open.
Probe(opened, pinged) ==
    /\ poolPc \in {"guess", "guesses"}
    /\ guessIdx <= Len(PoolGuesses)
    /\ Len(sqlPools) < MaxPools
    /\ IF ~opened
       THEN /\ guessIdx' = guessIdx + 1
            /\ UNCHANGED <<poolPc, sqlPools, deferred>>
       ELSE LET id == Len(sqlPools) + 1
                pools == Append(sqlPools, NewPool(PoolGuesses[guessIdx]))
                probes == Append(deferred, id)
            IN  IF pinged
                THEN /\ sqlPools' = RunDeferred(pools, probes)
                     /\ deferred' = <<>>
                     /\ poolPc' = "install"
                     /\ guessIdx' = 0
                ELSE /\ sqlPools' = pools
                     /\ deferred' = probes
                     /\ guessIdx' = guessIdx + 1
                     /\ UNCHANGED poolPc
    /\ UNCHANGED <<dbPool, poolErr>>
    /\ PoolFrame

\* No guess was left: guessDSN returns an error, and so does Open.
GuessFailed ==
    /\ poolPc \in {"guess", "guesses"}
    /\ guessIdx > Len(PoolGuesses)
    /\ sqlPools' = RunDeferred(sqlPools, deferred)
    /\ deferred' = <<>>
    /\ guessIdx' = 0
    /\ poolPc' = "failed"
    /\ poolErr' = "cannot connecting"
    /\ UNCHANGED dbPool
    /\ PoolFrame

\* The end of Open: db, err := sql.Open(driverName, dsn); driver.db = db,
\* where dsn is that of the probe that guessDSN opened last.
InstallPool(opened) ==
    /\ poolPc = "install"
    /\ Len(sqlPools) < MaxPools
    /\ IF opened
       THEN /\ sqlPools' = Append(sqlPools, NewPool(sqlPools[Len(sqlPools)].database))
            /\ dbPool' = Len(sqlPools) + 1
            /\ poolPc' = "opened"
            /\ UNCHANGED poolErr
       ELSE /\ poolPc' = "failed"
            /\ poolErr' = "sql.Open"
            /\ UNCHANGED <<sqlPools, dbPool>>
    /\ UNCHANGED <<deferred, guessIdx>>
    /\ PoolFrame

\* switchDatabase(dbName), as GetDbConnection, \connect, the setup and the
\* schema sync call it. Close of a pool that is closed returns nil.
SwitchPool(dbName, fault) ==
    /\ poolPc = "opened"
    /\ Len(sqlPools) < MaxPools
    /\ LET closed == IF dbPool # 0 THEN ClosePool(sqlPools, dbPool) ELSE sqlPools
           closeErr == dbPool # 0 /\ sqlPools[dbPool].state = "open" /\ fault = "Close"
       IN  IF closeErr
           THEN /\ sqlPools' = closed
                /\ poolErr' = "db.Close"
                /\ UNCHANGED dbPool
           ELSE IF fault = "Open"
           THEN /\ sqlPools' = closed
                /\ poolErr' = "sql.Open"
                /\ UNCHANGED dbPool
           ELSE /\ sqlPools' = Append(closed, NewPool(dbName))
                /\ dbPool' = Len(sqlPools) + 1
                /\ poolErr' = NoErr
    /\ UNCHANGED <<poolPc, deferred, guessIdx>>
    /\ PoolFrame

\* Close(ctx): return driver.db.Close().
CloseDriver ==
    /\ poolPc = "opened"
    /\ sqlPools' = ClosePool(sqlPools, dbPool)
    /\ poolPc' = "closed"
    /\ UNCHANGED <<deferred, guessIdx, dbPool, poolErr>>
    /\ PoolFrame

PoolInit ==
    /\ MigrationIdle
    /\ databases = DbNames
    /\ conn = ""
    /\ OtherIdle

PoolNext ==
    \/ \E database \in PoolDatabases : StartGuess(database)
    \/ \E opened, pinged \in BOOLEAN : Probe(opened, pinged)
    \/ GuessFailed
    \/ \E opened \in BOOLEAN : InstallPool(opened)
    \/ \E dbName \in {"app", "bytebase"}, fault \in SwitchFaults :
          SwitchPool(dbName, fault)
    \/ CloseDriver

PoolSpec == PoolInit /\ [][PoolNext]_vars

----------------------------------------------------------------------------
(* The inbox service of the store *)

\* The rows of the table inbox at most.
MaxInbox == 2

Receivers == {1, 2}
InboxStatuses == {"UNREAD", "READ"}

\* The table activity: its ids, and created_ts of each.
ActivityIds == {1, 2}
ActivityCreatedTs(a) == a - 1

\* The errors of the database and of the activity service that a call meets.
InboxFaults == {"none", "BeginTx", "Query", "FindActivity", "Commit"}

ENOTFOUND == "ENOTFOUND"
ECONFLICT == "ECONFLICT"

\* api.Inbox as the service returns it; Activity is the id of the activity.
Inbox(id, row) ==
    [ID |-> id, ReceiverId |-> row.receiver_id, Activity |-> row.activity_id,
     Status |-> row.status, Level |-> row.level]

\* The inboxes that are created: api.InboxCreate.
InboxCreates ==
    { [ReceiverId |-> 1, ActivityId |-> 1, Level |-> "INFO"],
      [ReceiverId |-> 1, ActivityId |-> 2, Level |-> "ERROR"],
      [ReceiverId |-> 2, ActivityId |-> 2, Level |-> "INFO"] }

\* The filters of api.InboxFind.
InboxFinds ==
    [ID : {Nil} \cup { {id} : id \in 1..(MaxInbox + 1) },
     ReceiverId : {Nil} \cup { {r} : r \in Receivers },
     ReadCreatedAfterTs : {Nil, {1}}]

\* The WHERE clause of findInboxList on the row id of table: the join with
\* activity and the filters that are set.
Where(table, id, find) ==
    /\ table[id].activity_id \in ActivityIds
    /\ \A v \in find.ID : id = v
    /\ \A v \in find.ReceiverId : table[id].receiver_id = v
    /\ \A v \in find.ReadCreatedAfterTs :
          \/ table[id].status # "READ"
          \/ ActivityCreatedTs(table[id].activity_id) >= v

\* findInboxList(ctx, tx, find): the rows that the query returns. FindInbox
\* reads the length of the list and its only element, not the order.
findInboxList(table, find) ==
    { Inbox(id, table[id]) : id \in { i \in DOMAIN table : Where(table, i, find) } }

\* The first inbox of the list is returned when there are several.
FindInboxResult_First(list) ==
    IF list = {} THEN [inbox |-> NoInbox, err |-> ENOTFOUND]
    ELSE [inbox |-> CHOOSE i \in list : TRUE, err |-> NoErr]

\* FindInbox after findInboxList: the only inbox of the list, or the error.
FindInboxResult(list) ==
    IF list = {} THEN [inbox |-> NoInbox, err |-> ENOTFOUND]
    ELSE IF Cardinality(list) > 1 THEN [inbox |-> NoInbox, err |-> ECONFLICT]
    ELSE [inbox |-> CHOOSE i \in list : TRUE, err |-> NoErr]

\* FindInbox(ctx, find)
FindInbox(find, fault) ==
    /\ inboxCall' = [op |-> "FindInbox", arg |-> find, fault |-> fault]
    /\ inboxBefore' = inbox
    /\ inboxRet' = IF fault # "none" THEN [inbox |-> NoInbox, err |-> fault]
                   ELSE FindInboxResult(findInboxList(inbox, find))
    /\ UNCHANGED inbox
    /\ InboxFrame

\* createInbox(ctx, tx, create): the INSERT with status UNREAD; the new id
\* follows the ids in use.
CreateInbox(create, fault) ==
    /\ Len(inbox) < MaxInbox
    /\ inboxCall' = [op |-> "CreateInbox", arg |-> create, fault |-> fault]
    /\ inboxBefore' = inbox
    /\ LET row == [receiver_id |-> create.ReceiverId, activity_id |-> create.ActivityId,
                   status |-> "UNREAD", level |-> create.Level]
       IN  IF fault # "none"
           THEN /\ inboxRet' = [inbox |-> NoInbox, err |-> fault]
                /\ UNCHANGED inbox
           ELSE /\ inbox' = Append(inbox, row)
                /\ inboxRet' = [inbox |-> Inbox(Len(inbox) + 1, row), err |-> NoErr]
    /\ InboxFrame

\* UPDATE inbox SET status = ? without the WHERE clause.
UpdateStatus_EveryRow(table, id, status) ==
    [i \in DOMAIN table |-> [table[i] EXCEPT !.status = status]]

\* UPDATE inbox SET status = ? WHERE id = ?
UpdateStatus(table, id, status) ==
    [i \in DOMAIN table |-> IF i = id THEN [table[i] EXCEPT !.status = status]
                            ELSE table[i]]

\* PatchInbox(ctx, patch): patchInbox in a transaction that is committed when
\* patchInbox returns no error, and rolled back otherwise.
PatchInbox(patch, fault) ==
    /\ inboxCall' = [op |-> "PatchInbox", arg |-> patch, fault |-> fault]
    /\ inboxBefore' = inbox
    /\ LET updated == UpdateStatus(inbox, patch.ID, patch.Status)
       IN  IF fault \in {"BeginTx", "Query"}
           THEN /\ inboxRet' = [inbox |-> NoInbox, err |-> fault]
                /\ UNCHANGED inbox
           ELSE IF patch.ID \notin DOMAIN inbox
           THEN /\ inboxRet' = [inbox |-> NoInbox, err |-> ENOTFOUND]
                /\ UNCHANGED inbox
           ELSE IF fault # "none"
           THEN /\ inboxRet' = [inbox |-> NoInbox, err |-> fault]
                /\ UNCHANGED inbox
           ELSE /\ inbox' = updated
                /\ inboxRet' = [inbox |-> Inbox(patch.ID, updated[patch.ID]),
                                err |-> NoErr]
    /\ InboxFrame

\* SELECT EXISTS (SELECT 1 FROM inbox WHERE receiver_id = ? AND status = 'UNREAD')
ExistsUnread(table, principalId) ==
    \E id \in DOMAIN table :
        table[id].receiver_id = principalId /\ table[id].status = "UNREAD"

\* The second query without the condition on status.
ExistsUnreadError_AnyStatus(table, principalId) ==
    \E id \in DOMAIN table :
        table[id].receiver_id = principalId /\ table[id].level = "ERROR"

\* SELECT EXISTS (SELECT 1 FROM inbox WHERE receiver_id = ? AND
\* status = 'UNREAD' AND level = 'ERROR')
ExistsUnreadError(table, principalId) ==
    \E id \in DOMAIN table :
        /\ table[id].receiver_id = principalId
        /\ table[id].status = "UNREAD"
        /\ table[id].level = "ERROR"

\* FindInboxSummary(ctx, principalId): the two queries read the table in one
\* transaction, the second only when the first found an unread inbox.
FindInboxSummary(principalId, fault) ==
    /\ inboxCall' = [op |-> "FindInboxSummary", arg |-> [ReceiverId |-> principalId],
                     fault |-> fault]
    /\ inboxBefore' = inbox
    /\ inboxRet' =
         IF fault # "none" THEN [inbox |-> NoInbox, err |-> fault]
         ELSE LET hasUnread == ExistsUnread(inbox, principalId)
              IN  [inbox |-> NoInbox, err |-> NoErr,
                   summary |-> [HasUnread |-> hasUnread,
                                HasUnreadError |->
                                    IF hasUnread THEN ExistsUnreadError(inbox, principalId)
                                    ELSE FALSE]]
    /\ UNCHANGED inbox
    /\ InboxFrame

InboxInit ==
    /\ MigrationIdle
    /\ databases = DbNames
    /\ conn = ""
    /\ OtherIdle

InboxNext ==
    \/ \E create \in InboxCreates, fault \in InboxFaults : CreateInbox(create, fault)
    \/ \E find \in InboxFinds, fault \in {"none", "BeginTx", "Query"} :
          FindInbox(find, fault)
    \/ \E patch \in [ID : 1..(MaxInbox + 1), Status : InboxStatuses],
          fault \in InboxFaults : PatchInbox(patch, fault)
    \/ \E principalId \in Receivers, fault \in {"none", "BeginTx", "Query"} :
          FindInboxSummary(principalId, fault)

InboxSpec == InboxInit /\ [][InboxNext]_vars

----------------------------------------------------------------------------
(* getIndexColumnExpressions *)

\* The column items of an index statement at most.
MaxColumns == 3

\* A bare column, an expression column, and a function call of two arguments.
BareColumn == <<"a">>
ExpressionColumn == <<"(", "(", "a", "+", "b", ")", ")">>
FunctionColumn == <<"f", "(", "a", ",", " ", "b", ")">>
ColumnItems == {BareColumn, ExpressionColumn, FunctionColumn}

\* The column lists of the index statements.
ColumnLists == UNION { [1..n -> ColumnItems] : n \in 1..MaxColumns }

\* The items of a column list as pg_get_indexdef writes them: a, b, c
RECURSIVE JoinColumns(_)
JoinColumns(items) ==
    IF Len(items) = 1 THEN items[1]
    ELSE items[1] \o <<",", " ">> \o JoinColumns(Tail(items))

\* CREATE INDEX i ON t USING btree (items)
IndexStatement(items) ==
    <<"CREATE INDEX i ON t USING btree ", "(">> \o JoinColumns(items) \o <<")">>

\* The positions of the character c in s.
Positions(s, c) == { i \in DOMAIN s : s[i] = c }

Least(S) == CHOOSE i \in S : \A j \in S : i <= j
Greatest(S) == CHOOSE i \in S : \A j \in S : i >= j

\* The line feed, which . of a regular expression does not match.
Newline == "\n"

\* s has no line feed from position a to position b.
NoNewline(s, a, b) == \A k \in a..b : s[k] # Newline

\* rc.FindStringSubmatch(stmt) for \((.*)\): from the first ( that has a )
\* after it on its line to the last such ); found tells whether there is a
\* match, group is rm[1].
FindColumnStmt(stmt) ==
    LET Closes(i) == { j \in Positions(stmt, ")") : j > i /\ NoNewline(stmt, i + 1, j - 1) }
        opens == { i \in Positions(stmt, "(") : Closes(i) # {} }
    IN  IF opens = {} THEN [found |-> FALSE, group |-> <<>>]
        ELSE [found |-> TRUE,
              group |-> SubSeq(stmt, Least(opens) + 1, Greatest(Closes(Least(opens))) - 1)]

\* re.FindString(s) for \(\(.*\)\) on an s that begins with ((: the match
\* starts there and ends at the last )) of s; no match is "". The s of the
\* loop is cut from rm[1], which has no line feed.
FindExpression(s) ==
    LET ends == { k \in DOMAIN s : k >= 4 /\ s[k - 1] = ")" /\ s[k] = ")" }
    IN  IF ~HasPrefix(s, <<"(", "(">>) \/ ends = {} THEN <<>>
        ELSE SubSeq(s, 1, Greatest(ends))

\* strings.TrimSpace(s)
RECURSIVE TrimSpace(_)
TrimSpace(s) ==
    IF s = <<>> THEN s
    ELSE IF Head(s) = " " THEN TrimSpace(Tail(s))
    ELSE IF s[Len(s)] = " " THEN TrimSpace(SubSeq(s, 1, Len(s) - 1))
    ELSE s

\* The token at the head of columnStmt: the expression when it begins with
\* ((, or else what comes before the first comma.
NextToken(s) ==
    IF HasPrefix(s, <<"(", "(">>) THEN FindExpression(s)
    ELSE IF Positions(s, ",") = {} THEN s
    ELSE SubSeq(s, 1, Least(Positions(s, ",")) - 1)

\* columnStmt is not cut by the token.
AfterToken_NoStrip(s, token) == TrimSpace(s)

\* columnStmt after the token: trimmed, one leading comma removed, trimmed.
AfterToken(s, token) ==
    LET rest == TrimSpace(SubSeq(s, Len(token) + 1, Len(s)))
    IN  TrimSpace(IF rest # <<>> /\ Head(rest) = "," THEN Tail(rest) ELSE rest)

\* getIndexColumnExpressions(stmt) up to the loop.
StartIndex ==
    /\ indexPc = "start"
    /\ LET rm == FindColumnStmt(IndexStatement(indexItems))
       IN  IF ~rm.found
           THEN /\ indexPc' = "done"
                /\ indexErr' = "invalid index statement"
                /\ UNCHANGED columnStmt
           ELSE /\ indexPc' = "loop"
                /\ columnStmt' = rm.group
                /\ UNCHANGED indexErr
    /\ UNCHANGED <<indexItems, cols>>
    /\ IndexFrame

\* One turn of the loop, and the return when columnStmt is empty.
NextColumn ==
    /\ indexPc = "loop"
    /\ IF columnStmt = <<>>
       THEN /\ indexPc' = "done"
            /\ UNCHANGED <<columnStmt, cols, indexErr>>
       ELSE LET token == NextToken(columnStmt)
            IN  IF token = <<>>
                THEN /\ indexPc' = "done"
                     /\ indexErr' = "invalid index statement"
                     /\ cols' = <<>>
                     /\ UNCHANGED columnStmt
                ELSE /\ columnStmt' = AfterToken(columnStmt, token)
                     /\ cols' = Append(cols, TrimSpace(token))
                     /\ UNCHANGED <<indexPc, indexErr>>
    /\ UNCHANGED indexItems
    /\ IndexFrame

IndexInit ==
    /\ MigrationIdle
    /\ databases = DbNames
    /\ conn = ""
    /\ IndexOthersIdle
    /\ indexItems \in ColumnLists
    /\ indexPc = "start"
    /\ columnStmt = <<>>
    /\ cols = <<>>
    /\ indexErr = NoErr

IndexNext == StartIndex \/ NextColumn

IndexSpec == IndexInit /\ [][IndexNext]_vars

\* The pieces that a column list is put together from at most.
MaxPieces == 4

\* The pieces of the column lists that are not well formed: parentheses open
\* and closed, single and double, the comma, white space and a name.
Pieces == { <<"(">>, <<")">>, <<"(", "(">>, <<")", ")">>, <<",">>, <<" ">>,
            <<Newline>>, <<"a">> }

\* The pieces of a list, one after the other.
RECURSIVE Concat(_)
Concat(pieces) == IF pieces = <<>> THEN <<>> ELSE Head(pieces) \o Concat(Tail(pieces))

\* Any text between the parentheses of the index statement.
AnyColumnLists ==
    { <<Concat(pieces)>> : pieces \in UNION { [1..n -> Pieces] : n \in 0..MaxPieces } }

AnyIndexInit ==
    /\ MigrationIdle
    /\ databases = DbNames
    /\ conn = ""
    /\ IndexOthersIdle
    /\ indexItems \in AnyColumnLists
    /\ indexPc = "start"
    /\ columnStmt = <<>>
    /\ cols = <<>>
    /\ indexErr = NoErr

\* getIndexColumnExpressions on any text; a call that has begun goes on.
AnyIndexSpec == AnyIndexInit /\ [][IndexNext]_vars /\ WF_vars(IndexNext)

----------------------------------------------------------------------------
(* Execute on CREATE DATABASE statements: the name of the database *)

\* The characters of a database name at most, and the calls of Execute.
MaxDbName == 2
MaxExecutes == 3

\* The names as they are written in a statement: bare or in double quotes.
BareNames == StringsUpTo({"a", "A"}, MaxDbName) \ {<<>>}
WrittenNames == BareNames \cup { <<DoubleQuote>> \o n \o <<DoubleQuote>> : n \in BareNames }

\* The statement as f receives it: CREATE DATABASE name;
CreateDatabaseStatement(name) == <<"CREATE DATABASE", " ">> \o name \o <<";">>

\* strings.TrimLeft(s, cutset) and strings.TrimRight(s, cutset) for a cutset
\* of one character.
RECURSIVE TrimLeft(_, _)
TrimLeft(s, c) == IF s # <<>> /\ Head(s) = c THEN TrimLeft(Tail(s), c) ELSE s

RECURSIVE TrimRight(_, _)
TrimRight(s, c) ==
    IF s # <<>> /\ s[Len(s)] = c THEN TrimRight(SubSeq(s, 1, Len(s) - 1), c) ELSE s

\* strings.Fields(s)[0]: the first run of characters that are not spaces,
\* <<>> when there is none.
RECURSIVE FirstField(_)
FirstField(s) ==
    LET t == TrimLeft(s, " ")
    IN  IF t = <<>> \/ Head(t) = " " THEN <<>>
        ELSE IF Len(t) = 1 THEN t
        ELSE IF t[2] = " " THEN <<Head(t)>>
        ELSE <<Head(t)>> \o FirstField(Tail(t))

\* getDatabaseInCreateDatabaseStatement(createDatabaseStatement)
getDatabaseInCreateDatabaseStatement(stmt) ==
    LET raw == TrimRight(stmt, ";")
        rest == IF raw # <<>> /\ Head(raw) = "CREATE DATABASE" THEN Tail(raw) ELSE raw
        token == FirstField(rest)
    IN  IF token = <<>> THEN [name |-> <<>>, err |-> "database name not found"]
        ELSE [name |-> TrimRight(TrimLeft(token, DoubleQuote), DoubleQuote), err |-> NoErr]

\* The database that the server takes a written name for: what is between
\* the quotes, or the bare name in lower case.
DatabaseNamed(name) ==
    IF Len(name) >= 2 /\ Head(name) = DoubleQuote /\ name[Len(name)] = DoubleQuote
    THEN SubSeq(name, 2, Len(name) - 1)
    ELSE [i \in 1..Len(name) |-> IF name[i] = "A" THEN "a" ELSE name[i]]

\* Execute(ctx, "CREATE DATABASE name;"): getDatabases is compared with the
\* name of the statement, and the statement is issued when none is equal;
\* the server refuses to create a database that exists.
ExecuteCreateDatabase(name) ==
    /\ createCount < MaxExecutes
    /\ createCount' = createCount + 1
    /\ LET parsed == getDatabaseInCreateDatabaseStatement(CreateDatabaseStatement(name))
           exist == parsed.name \in pgDatabase
           duplicate == DatabaseNamed(name) \in pgDatabase
       IN  IF parsed.err # NoErr
           THEN /\ createCall' = [name |-> name, before |-> pgDatabase,
                                  issued |-> FALSE, err |-> parsed.err]
                /\ UNCHANGED pgDatabase
           ELSE IF exist
           THEN /\ createCall' = [name |-> name, before |-> pgDatabase,
                                  issued |-> FALSE, err |-> NoErr]
                /\ UNCHANGED pgDatabase
           ELSE IF duplicate
           THEN /\ createCall' = [name |-> name, before |-> pgDatabase,
                                  issued |-> TRUE, err |-> "database already exists"]
                /\ UNCHANGED pgDatabase
           ELSE /\ createCall' = [name |-> name, before |-> pgDatabase,
                                  issued |-> TRUE, err |-> NoErr]
                /\ pgDatabase' = pgDatabase \cup {DatabaseNamed(name)}
    /\ CreateFrame

CreateInit ==
    /\ MigrationIdle
    /\ databases = DbNames
    /\ conn = ""
    /\ OtherIdle

CreateNext == \E name \in WrittenNames : ExecuteCreateDatabase(name)

CreateSpec == CreateInit /\ [][CreateNext]_vars

----------------------------------------------------------------------------
(* updateMigrationHistoryStorageVersion, row by row *)

\* The rows of migration_history at most, and the calls of the backfill.
MaxHistory == 2
MaxBackfills == 2

\* The rows of a history before the backfill: versions of an older release
\* (stored as given) and versions in the stored form.
HistoryRows ==
    [namespace : {"app"}, status : {"DONE", "FAILED"},
     version : {<<1>>, <<2>>, ToStoredVersion(<<1>>), ToStoredVersion(<<2>>)}]

\* The version of a row in the stored form.
StoredForm(v) == IF HasNonSemanticPrefix(v) THEN v ELSE NonSemanticPrefix \o v

\* The tables: (namespace, version) is unique, and stays so in the stored form.
HistoryTables ==
    UNION { { t \in [1..n -> HistoryRows] :
                \A i, j \in 1..n :
                    (i # j /\ t[i].namespace = t[j].namespace)
                        => StoredForm(t[i].version) # StoredForm(t[j].version) }
            : n \in 0..MaxHistory }

\* The errors of the database that a call of the backfill meets.
BackfillFaults == {"none", "Query", "Exec"}

\* UPDATE migration_history SET version = $1 without the WHERE clause.
UpdateVersion_EveryRow(table, newVersion, id, version) ==
    [i \in DOMAIN table |-> [table[i] EXCEPT !.version = newVersion]]

\* UPDATE migration_history SET version = $1 WHERE id = $2 AND version = $3
UpdateVersion(table, newVersion, id, version) ==
    [i \in DOMAIN table |->
        IF i = id /\ table[i].version = version
        THEN [table[i] EXCEPT !.version = newVersion]
        ELSE table[i]]

\* updateMigrationHistoryStorageVersion(ctx) up to the loop: sqldb, which
\* stays nil in strict database mode, and SELECT id, version.
BackfillStart(strict, fault) ==
    /\ backfillPc = "idle"
    /\ backfillCount < MaxBackfills
    /\ backfillCount' = backfillCount + 1
    /\ historyBefore' = migrationHistory
    /\ versIdx' = 1
    /\ IF strict
       THEN /\ backfillCall' = [strict |-> strict, err |-> "panic: nil pointer dereference"]
            /\ backfillPc' = "done"
            /\ vers' = <<>>
       ELSE IF fault = "Query"
       THEN /\ backfillCall' = [strict |-> strict, err |-> "EngineError"]
            /\ backfillPc' = "done"
            /\ vers' = <<>>
       ELSE /\ backfillCall' = [strict |-> strict, err |-> NoErr]
            /\ backfillPc' = "loop"
            /\ vers' = [i \in DOMAIN migrationHistory |->
                          [id |-> i, version |-> migrationHistory[i].version]]
    /\ UNCHANGED migrationHistory
    /\ BackfillFrame

\* One turn of the loop over vers, and the return after the last.
BackfillRow(fault) ==
    /\ backfillPc = "loop"
    /\ IF versIdx > Len(vers)
       THEN /\ backfillPc' = "done"
            /\ UNCHANGED <<migrationHistory, versIdx, backfillCall>>
       ELSE LET v == vers[versIdx]
            IN  IF HasNonSemanticPrefix(v.version)
                THEN /\ versIdx' = versIdx + 1
                     /\ UNCHANGED <<migrationHistory, backfillPc, backfillCall>>
                ELSE IF fault = "Exec"
                THEN /\ backfillCall' = [backfillCall EXCEPT !.err = "EngineError"]
                     /\ backfillPc' = "done"
                     /\ UNCHANGED <<migrationHistory, versIdx>>
                ELSE /\ migrationHistory' =
                          UpdateVersion(migrationHistory, NonSemanticPrefix \o v.version,
                                        v.id, v.version)
                     /\ versIdx' = versIdx + 1
                     /\ UNCHANGED <<backfillPc, backfillCall>>
    /\ UNCHANGED <<historyBefore, vers, backfillCount>>
    /\ BackfillFrame

\* The caller has the result; the backfill may be called again.
BackfillReturned ==
    /\ backfillPc = "done"
    /\ backfillCount < MaxBackfills
    /\ backfillPc' = "idle"
    /\ UNCHANGED <<migrationHistory, historyBefore, vers, versIdx, backfillCall,
                   backfillCount>>
    /\ BackfillFrame

BackfillInit ==
    /\ MigrationIdle
    /\ databases = DbNames
    /\ conn = ""
    /\ BackfillOthersIdle
    /\ migrationHistory \in HistoryTables
    /\ historyBefore = migrationHistory
    /\ backfillPc = "idle"
    /\ vers = <<>>
    /\ versIdx = 0
    /\ backfillCall = [strict |-> FALSE, err |-> NoErr]
    /\ backfillCount = 0

BackfillNext ==
    \/ \E strict \in BOOLEAN, fault \in BackfillFaults : BackfillStart(strict, fault)
    \/ \E fault \in BackfillFaults : BackfillRow(fault)
    \/ BackfillReturned

BackfillSpec == BackfillInit /\ [][BackfillNext]_vars

----------------------------------------------------------------------------
(* Two callers of one driver *)

\* The callers of the driver: the driver has no lock, and the steps of
\* switchDatabase of one caller interleave with the steps of the other.
Callers == {1, 2}

\* The calls of GetDbConnection that the two callers make at most.
MaxSwitches == 3

\* The databases that the callers call GetDbConnection for.
SharedDatabases == {"app", "bytebase"}

\* The error of database/sql on a pool that was closed.
ErrDbClosed == "sql: database is closed"

\* switchDatabase(dbName), its first step: driver.db.Close() where driver.db
\* is not nil. The caller forgets what an earlier call returned to it.
SwitchClose(c, dbName) ==
    /\ callPc[c] = "idle"
    /\ Len(sharedPools) <= MaxSwitches
    /\ sharedPools' = IF sharedDb # 0 THEN ClosePool(sharedPools, sharedDb)
                      ELSE sharedPools
    /\ callPc' = [callPc EXCEPT ![c] = "open"]
    /\ callFor' = [callFor EXCEPT ![c] = dbName]
    /\ sqldb' = [sqldb EXCEPT ![c] = 0]
    /\ ranOn' = [ranOn EXCEPT ![c] = ""]
    /\ UNCHANGED <<sharedDb, callDb>>
    /\ SharedFrame

\* db, err := sql.Open(driverName, driver.baseDSN + " dbname=" + dbName).
SwitchOpen(c) ==
    /\ callPc[c] = "open"
    /\ sharedPools' = Append(sharedPools, NewPool(callFor[c]))
    /\ callDb' = [callDb EXCEPT ![c] = Len(sharedPools) + 1]
    /\ callPc' = [callPc EXCEPT ![c] = "assign"]
    /\ UNCHANGED <<sharedDb, callFor, sqldb, ranOn>>
    /\ SharedFrame

\* driver.db = db.
SwitchAssign(c) ==
    /\ callPc[c] = "assign"
    /\ sharedDb' = callDb[c]
    /\ callPc' = [callPc EXCEPT ![c] = "return"]
    /\ UNCHANGED <<sharedPools, callFor, callDb, sqldb, ranOn>>
    /\ SharedFrame

\* GetDbConnection: return driver.db, nil. The field is read again.
ReturnDb(c) ==
    /\ callPc[c] = "return"
    /\ sqldb' = [sqldb EXCEPT ![c] = sharedDb]
    /\ callPc' = [callPc EXCEPT ![c] = "holding"]
    /\ UNCHANGED <<sharedPools, sharedDb, callFor, callDb, ranOn>>
    /\ SharedFrame

\* sqldb.Query(query) of the caller, on the pool that GetDbConnection
\* returned to it: the error of a closed pool, or the rows of the database
\* that the pool was opened on.
Statement(c) ==
    /\ callPc[c] = "holding"
    /\ ranOn' = [ranOn EXCEPT ![c] =
                    IF sharedPools[sqldb[c]].state = "closed" THEN ErrDbClosed
                    ELSE sharedPools[sqldb[c]].database]
    /\ callPc' = [callPc EXCEPT ![c] = "idle"]
    /\ UNCHANGED <<sharedPools, sharedDb, callFor, callDb, sqldb>>
    /\ SharedFrame

\* The driver after Open, with the pool that guessDSN installed, and two
\* callers that have not called it yet.
SharedInit ==
    /\ MigrationIdle
    /\ databases = DbNames
    /\ conn = ""
    /\ SharedOthersIdle
    /\ sharedPools = <<NewPool("")>>
    /\ sharedDb = 1
    /\ callPc = <<"idle", "idle">>
    /\ callFor = <<"", "">>
    /\ callDb = <<0, 0>>
    /\ sqldb = <<0, 0>>
    /\ ranOn = <<"", "">>

SharedNext ==
    \/ \E c \in Callers, dbName \in SharedDatabases : SwitchClose(c, dbName)
    \/ \E c \in Callers : SwitchOpen(c)
    \/ \E c \in Callers : SwitchAssign(c)
    \/ \E c \in Callers : ReturnDb(c)
    \/ \E c \in Callers : Statement(c)

SharedSpec == SharedInit /\ [][SharedNext]_vars

----------------------------------------------------------------------------
(* The schema sync of a table *)

\* The schema names of the synced table: a regular one, and a keyword.
SyncSchemas == { <<"a">>, <<"a", "s">> }

\* The tables that the synced database may hold: one table with one column
\* and one row, its name any identifier that is not empty.
SyncTables ==
    { [schemaName |-> s, name |-> n, rowCount |-> 1, columns |-> {"id"}] :
        s \in SyncSchemas, n \in StringsUpTo(IdentChars, MaxIdent) \ {<<>>} }

\* fmt.Sprintf(`"%s"."%s"`, schemaName, name): the name of the relation in
\* the count query and in the comment query.
RelationText(schemaName, name) ==
    <<DoubleQuote>> \o schemaName \o <<DoubleQuote, ".", DoubleQuote>> \o name
        \o <<DoubleQuote>>

\* The engine reads a delimited identifier: the position of the double quote
\* that ends the identifier whose text begins at i, 0 when there is none.
\* A doubled double quote is a double quote of the identifier.
RECURSIVE DelimitedEnd(_, _)
DelimitedEnd(text, i) ==
    IF i > Len(text) THEN 0
    ELSE IF text[i] # DoubleQuote THEN DelimitedEnd(text, i + 1)
    ELSE IF i < Len(text) /\ text[i + 1] = DoubleQuote THEN DelimitedEnd(text, i + 2)
    ELSE i

\* The engine reads text as "schema"."name": the two identifiers, or a syntax
\* error (an identifier of no characters, or text that is no such name).
ParseRelation(text) ==
    LET e1 == DelimitedEnd(text, 2)
        e2 == DelimitedEnd(text, e1 + 4)
    IN  IF /\ Len(text) >= 1 /\ text[1] = DoubleQuote
           /\ e1 > 2
           /\ Len(text) >= e1 + 2
           /\ text[e1 + 1] = "." /\ text[e1 + 2] = DoubleQuote
           /\ e2 > e1 + 3
           /\ e2 = Len(text)
        THEN [ok |-> TRUE,
              schemaName |-> Undouble(SubSeq(text, 2, e1 - 1)),
              name |-> Undouble(SubSeq(text, e1 + 3, e2 - 1))]
        ELSE [ok |-> FALSE, schemaName |-> <<>>, name |-> <<>>]

\* The relation that text names is the table of the database.
NamesTable(text) ==
    LET r == ParseRelation(text)
    IN  r.ok /\ r.schemaName = pgTable.schemaName /\ r.name = pgTable.name

\* getPgTables, the query of pg_tables and the first loop: the names of the
\* tableSchema are what quoteIdentifier returns on the names of the catalog.
ListTables ==
    /\ syncPc = "idle"
    /\ tbl' = [schemaName |-> quoteIdentifier(pgTable.schemaName),
               name |-> quoteIdentifier(pgTable.name),
               rowCount |-> 0, columns |-> {}]
    /\ syncPc' = "getTable"
    /\ UNCHANGED <<pgTable, syncErr>>
    /\ SyncFrame

\* getTable(txn, tbl): SELECT COUNT(1) FROM "schemaName"."name", then
\* obj_description('"schemaName"."name"'::regclass). A query whose relation
\* is no name or names no table fails, and getPgTables returns the error.
GetTable ==
    /\ syncPc = "getTable"
    /\ IF NamesTable(RelationText(tbl.schemaName, tbl.name))
       THEN /\ tbl' = [tbl EXCEPT !.rowCount = pgTable.rowCount]
            /\ syncPc' = "getTableColumns"
            /\ UNCHANGED syncErr
       ELSE /\ syncErr' = "getTable"
            /\ syncPc' = "returned"
            /\ UNCHANGED tbl
    /\ UNCHANGED pgTable
    /\ SyncFrame

\* getTableColumns(txn, tbl.schemaName, tbl.name): the rows of
\* INFORMATION_SCHEMA.COLUMNS WHERE table_schema=$1 AND table_name=$2.
GetTableColumns ==
    /\ syncPc = "getTableColumns"
    /\ tbl' = [tbl EXCEPT !.columns =
                 IF tbl.schemaName = pgTable.schemaName /\ tbl.name = pgTable.name
                 THEN pgTable.columns ELSE {}]
    /\ syncPc' = "returned"
    /\ UNCHANGED <<pgTable, syncErr>>
    /\ SyncFrame

SyncInit ==
    /\ MigrationIdle
    /\ databases = DbNames
    /\ conn = ""
    /\ SyncOthersIdle
    /\ pgTable \in SyncTables
    /\ syncPc = "idle"
    /\ tbl = NoTable
    /\ syncErr = NoErr

SyncNext ==
    \/ ListTables
    \/ GetTable
    \/ GetTableColumns

SyncSpec == SyncInit /\ [][SyncNext]_vars

----------------------------------------------------------------------------
(* Properties of the migration history *)

IsDone(r) == r.status = "DONE"
IsBaselineOrBranch(r) == r.type \in {"BASELINE", "BRANCH"}

\* The ids of the rows of a namespace with an id below j.
Before(h, namespace, j) == { i \in DOMAIN h : i < j /\ h[i].namespace = namespace }

\* The ids of the rows of a namespace below j, from its latest BASELINE or
\* BRANCH row below j on (all of them when it has none).
WindowBefore(h, namespace, j) ==
    LET base == { i \in Before(h, namespace, j) : IsBaselineOrBranch(h[i]) }
    IN  { i \in Before(h, namespace, j) : base = {} \/ i >= Max(base) }

\* The ids of the DONE rows of a namespace below j.
DoneBefore(h, namespace, j) == { i \in Before(h, namespace, j) : IsDone(h[i]) }

\* C1: every row is inserted PENDING, its status changes at most once, from
\* PENDING to DONE or to FAILED, a DONE or FAILED row keeps its status, and no
\* row is deleted (a row keeps its id, namespace, sequence and version).
C1_StatusChangesOnce ==
    [][ /\ Len(history') >= Len(history)
        /\ \A i \in DOMAIN history :
             /\ history'[i].namespace = history[i].namespace
             /\ history'[i].sequence = history[i].sequence
             /\ history'[i].version = history[i].version
             /\ history'[i].status # history[i].status
                  => /\ history[i].status = "PENDING"
                     /\ history'[i].status \in {"DONE", "FAILED"}
        /\ \A i \in DOMAIN history' \ DOMAIN history :
             history'[i].status = "PENDING" ]_vars

\* A DONE row, a FAILED row and a PENDING row side by side.
C1_Witness ==
    /\ \E i \in DOMAIN history : history[i].status = "DONE"
    /\ \E i \in DOMAIN history : history[i].status = "FAILED"
    /\ \E i \in DOMAIN history : history[i].status = "PENDING"

\* C2: in every namespace the sequences of the rows, in order of id, are
\* 1, 2, ..., n.
C2_SequencesContiguous ==
    \A n \in Namespaces :
        LET rows == RowsOf(history, n)
        IN  \A k \in 1..Len(rows) : rows[k].sequence = k

\* Both namespaces have rows, their ids interleaved.
C2_Witness ==
    /\ Len(history) >= 3
    /\ history[1].namespace = "app"
    /\ history[2].namespace = "aux"
    /\ history[3].namespace = "app"

NotAboveNonFailed(h, m) ==
    \E i \in WindowBefore(h, m.namespace, Len(h) + 1) :
        /\ h[i].status # "FAILED"
        /\ StoredVersionLeq(ToStoredVersion(m.version), h[i].version)

\* C4: a migration that is not a BASELINE and whose version is not above the
\* largest version of a row that has not failed since the most recent BASELINE
\* or BRANCH fails with MigrationAlreadyApplied; it inserts and updates no row.
C4_AlreadyAppliedRejected ==
    /\ [][ \A p \in Procs :
             /\ ( /\ pc[p] = "locked"
                  /\ pc'[p] # "locked"
                  /\ mig[p].type # "BASELINE"
                  /\ NotAboveNonFailed(history, mig[p]) )
                => /\ loc'[p].err = "MigrationAlreadyApplied"
                   /\ pc'[p] = "release"
                   /\ history' = history
             /\ ( /\ loc[p].err = "MigrationAlreadyApplied"
                  /\ pc'[p] # pc[p] )
                => /\ pc'[p] = "idle"
                   /\ history' = history ]_vars
    /\ [](\A p \in Procs :
             loc[p].err = "MigrationAlreadyApplied"
                => pc[p] = "release" /\ loc[p].insertedID = 0)

\* A MIGRATE was refused with the version of a DONE row.
C4_Witness ==
    \E p \in Procs :
        /\ loc[p].err = "MigrationAlreadyApplied"
        /\ mig[p].type = "MIGRATE"
        /\ \E i \in DOMAIN history :
             /\ IsDone(history[i])
             /\ history[i].namespace = mig[p].namespace
             /\ history[i].version = ToStoredVersion(mig[p].version)

NoBaselineBetween(h, i, j) ==
    \A k \in (i + 1)..j :
        ~(h[k].namespace = h[j].namespace /\ h[k].type = "BASELINE")

HoldsLock(p) ==
    pc[p] \in {"locked", "checked", "sequenced", "inserted", "executed", "release"}

----------------------------------------------------------------------------
(* Properties of Execute *)

\* C8: when a statement of a script fails, Execute returns the error and the
\* tables of every database are as they were before the call.
C8_FailedScriptLeavesNoTable ==
    [][ /\ execResult'.err # NoErr => tables' = tables
        /\ (\E k \in DOMAIN execResult'.script :
               execResult'.script[k] = DivideByZero)
             => execResult'.err # NoErr ]_vars

\* CREATE TABLE u; SELECT 1/0; failed in the engine and u does not exist.
C8_Witness ==
    /\ execResult.script = <<CreateTable("u"), DivideByZero>>
    /\ execResult.err = "EngineError"
    /\ conn \in databases
    /\ "u" \notin tables[conn]

----------------------------------------------------------------------------
(* Properties of the bootstrap and of the query path *)

\* C11: a driver that was opened in strict database mode never creates the
\* database bytebase, never has it as its connection, and reads and writes
\* migration_history in the database it was opened on only, whatever
\* operations are called.
C11_StrictNeverUsesBytebase ==
    /\ [](strictUseDb(TheDriver)
            => /\ conn # BytebaseDatabase
               /\ historyAccess \subseteq {strictDatabase})
    /\ [][strictUseDb(TheDriver)
            => (BytebaseDatabase \in databases' => BytebaseDatabase \in databases)]_vars

\* In strict database mode the query met a version of an older release: the
\* backfill ended in the panic, on the database the driver was opened on.
C11_Witness ==
    /\ strictDatabase = "app"
    /\ opResult.op = "FindMigrationHistoryList"
    /\ opResult.err = "panic: nil pointer dereference"
    /\ conn = "app"
    /\ historyAccess = {"app"}
    /\ BytebaseDatabase \notin databases

\* C16 as stated: when SetupMigrationIfNeeded returns no error, a following
\* NeedsSetupMigration returns false, and when NeedsSetupMigration fails
\* within it, SetupMigrationIfNeeded returns an error.
C16_AsStated ==
    [][ opResult'.op = "SetupMigrationIfNeeded"
          => /\ opResult'.err = NoErr
                  => LET n == NeedsSetupMigration(TheDriver', "none")
                     IN  n.err = NoErr /\ ~n.value
             /\ NeedsSetupMigration(TheDriver, opResult'.fault).err # NoErr
                  => opResult'.err # NoErr ]_vars

----------------------------------------------------------------------------
(* Properties of the webhook *)

\* The repository of the endpoint of the request was found and composed.
RepositoryFound(req) ==
    req.endpoint = repository.WebhookEndpointId /\ ~req.storeErr

\* C12: a request is answered 400 and creates no issue when its event is not
\* a push, or when its X-Gitlab-Token header differs from the secret token of
\* the repository of its endpoint, or when the project id of its event differs
\* from the external id of that repository; an issue is created only for a
\* request that passed the three checks.
C12_RejectedBeforeAnyIssue ==
    /\ [][ ( /\ hookPc = "idle"
              /\ \/ request'.ObjectKind # "push"
                 \/ /\ RepositoryFound(request')
                    /\ \/ request'.token # repository.SecretToken
                       \/ Itoa(request'.ProjectID) # repository.ExternalId )
             => /\ response'.code = 400
                /\ hookPc' = "idle"
                /\ issues' = issues ]_vars
    /\ [][ issues' # issues
             => /\ hookPc = "loop"
                /\ request' = request
                /\ request.ObjectKind = "push"
                /\ request.token = repository.SecretToken
                /\ Itoa(request.ProjectID) = repository.ExternalId ]_vars

\* A push event of the repository's project with a wrong token is answered 400,
\* after an earlier request has created an issue.
C12_Witness ==
    /\ response.code = 400
    /\ hookPc = "idle"
    /\ RepositoryFound(request)
    /\ request.ObjectKind = "push"
    /\ request.ProjectID = 12
    /\ request.token = "wrong"
    /\ request.CommitList = << Commit("c1", "T1", <<PathA, PathReadme>>) >>
    /\ Len(issues) = 1

\* The positions of the added paths of the commits.
AllPositions(commits) ==
    UNION { { <<c, a>> : a \in 1..Len(commits[c].AddedList) } : c \in DOMAIN commits }

\* The number of lines of a body.
LineCount(body) ==
    IF body = <<>> THEN 0
    ELSE 1 + Cardinality({ i \in DOMAIN body : body[i] = "\n" })

\* C13: once a request has passed the checks, every step of its handler either
\* handles the next added path and goes on with the one after it, creating at
\* most one issue and no response, or, after the last added path of the last
\* commit, answers 200 with one line for each issue the request created.
C13_PerFileFailuresAreSkipped ==
    [][ hookPc = "loop"
          => \/ /\ hookPc' = "loop"
                /\ processed' = processed \cup {<<ci, ai>>}
                /\ <<ci', ai'>> = NextPosition(request.CommitList, ci, ai)
                /\ Len(issues') \in {Len(issues), Len(issues) + 1}
                /\ response' = response
             \/ /\ hookPc' = "idle"
                /\ processed = AllPositions(request.CommitList)
                /\ response'.code = 200
                /\ LineCount(response'.body) = Len(issues) - issues0
                /\ issues' = issues ]_vars

\* A request of three added paths is answered 200 with one line: the database
\* of the first path does not exist, the second failed, the third is an issue.
C13_Witness ==
    /\ hookPc = "idle"
    /\ response.code = 200
    /\ Cardinality(processed) = 3
    /\ Len(issues) = issues0 + 1
    /\ issues[Len(issues)].TaskList[1].Added = PathA
    /\ LineCount(response.body) = 1

\* path lies under the directory dir.
Under(path, dir) ==
    LET d == StripTrailingSlashes(dir)
    IN  d = <<>> \/ HasPrefix(path, d \o <<"/">>)

\* C14 as stated: every issue stems from an added path that lies under the
\* base directory of the repository and ends in .sql, and has one task, of
\* type schema update and status PENDING, with the contents of the file as
\* its statement.
C14_AsStated ==
    \A i \in DOMAIN issues :
        LET task == issues[i].TaskList[1]
        IN  /\ Len(issues[i].TaskList) = 1
            /\ Under(task.Added, repository.BaseDirectory)
            /\ Ext(task.Added) = DotSql
            /\ task.Type = "TaskDatabaseSchemaUpdate"
            /\ task.Status = "PENDING"
            /\ task.Statement = FileContents(task.Added)

----------------------------------------------------------------------------
(* Properties of Driver.Open *)

\* Both of ssl-cert and ssl-key are set, or neither is.
TLSPaired(config) == (config.SslCert = "") = (config.SslKey = "")

\* C17: after an Open that got as far as connecting, the databases that were
\* tried are an initial part of "", bytebase, postgres, template1 when no
\* database name was given and of the given name alone otherwise; every one
\* tried before the last refused the ping; when some candidate accepts, Open
\* succeeds on the last one tried, which accepts; when none does, every
\* candidate was tried and Open fails.
C17_GuessesInOrder ==
    (openCall # NoOpenCall /\ TLSPaired(openCall.config)) =>
        LET database == openCall.config.Database
            order == IF database = ""
                     THEN <<"", "bytebase", "postgres", "template1">>
                     ELSE <<database>>
            n == Len(attempts)
        IN  /\ n \in 1..Len(order)
            /\ \A i \in 1..n : attempts[i] = order[i]
            /\ \A i \in 1..(n - 1) : attempts[i] \notin openCall.accepts
            /\ IF \E i \in 1..Len(order) : order[i] \in openCall.accepts
               THEN /\ openErr = NoErr
                    /\ attempts[n] \in openCall.accepts
                    /\ conn = attempts[n]
               ELSE /\ attempts = order
                    /\ openErr \in {"cannot connecting database",
                                    "cannot connecting instance"}

\* postgres accepted after the server-level connection and bytebase refused,
\* and template1, which would accept too, was not tried.
C17_Witness ==
    /\ attempts = <<"", "bytebase", "postgres">>
    /\ openErr = NoErr
    /\ conn = "postgres"
    /\ "template1" \in openCall.accepts

\* C18: an Open whose configuration has exactly one of ssl-cert and ssl-key
\* fails with no database tried and with the driver as it was; an Open whose
\* configuration has both or neither tries a database.
C18_TLSCheckedFirst ==
    [][ (openCall' # NoOpenCall) =>
          IF TLSPaired(openCall'.config)
          THEN attempts' # <<>>
          ELSE /\ openErr' = "ssl-cert and ssl-key must be both set or unset"
               /\ attempts' = <<>>
               /\ UNCHANGED <<conn, baseDSN, strictDatabase, driverDb, driverConfig>>
      ]_vars

\* A key without a certificate was refused on a driver that is connected.
C18_Witness ==
    /\ openCall # NoOpenCall
    /\ openCall.config.SslCert = ""
    /\ openCall.config.SslKey # ""
    /\ openErr = "ssl-cert and ssl-key must be both set or unset"
    /\ attempts = <<>>
    /\ driverDb # {}

----------------------------------------------------------------------------
(* Properties of Dump *)

\* Lines i and i + 1 of what Dump wrote are both empty.
BlankRunAt(i) == dumpOut[i] = EmptyLine /\ dumpOut[i + 1] = EmptyLine

UseDatabase(database) ==
    <<"\\", "c", "o", "n", "n", "e", "c", "t", " ", "\"", database, "\"">>

\* C20 as stated: when Dump returns after dumping several databases, the lines
\* written for every database after the first begin with the directive
\* \connect for it; when it dumped one database, no line is a directive.
C20_AsStated ==
    (dumpPc = "done" /\ dumpErr = NoErr) =>
        IF Len(dumpableDbNames) > 1
        THEN \A k \in 2..Len(dumpableDbNames) :
                /\ sectionStart[k] <= Len(dumpOut)
                /\ dumpOut[sectionStart[k]] = UseDatabase(dumpableDbNames[k])
        ELSE \A i \in 1..Len(dumpOut) :
                \A k \in 1..Len(dumpableDbNames) :
                    dumpOut[i] # UseDatabase(dumpableDbNames[k])

----------------------------------------------------------------------------
(* Properties of the command line of pg_dump *)

\* Runs a and b dump the same database in the same way with configurations
\* that differ at most in the password, which is not empty in either.
SameButPassword(a, b) ==
    /\ a # NoRun /\ b # NoRun
    /\ a.config.Password # "" /\ b.config.Password # ""
    /\ [a.config EXCEPT !.Password = ""] = [b.config EXCEPT !.Password = ""]
    /\ a.database = b.database
    /\ a.schemaOnly = b.schemaOnly

\* C21: two runs of pg_dump whose configurations differ only in the value of
\* a password that is not empty have the same path and arguments, no argument
\* holds the password, and the environment of each is PGPASSWORD with its
\* password.
C21_PasswordOnlyInEnvironment ==
    \A i, j \in Runs :
        SameButPassword(pgDumpRuns[i], pgDumpRuns[j]) =>
            /\ pgDumpRuns[i].args = pgDumpRuns[j].args
            /\ pgDumpRuns[i].path = pgDumpRuns[j].path
            /\ \A k \in 1..Len(pgDumpRuns[i].args) :
                  pgDumpRuns[i].args[k][2] # pgDumpRuns[i].config.Password
            /\ pgDumpRuns[i].env
                 = {<<"PGPASSWORD=", pgDumpRuns[i].config.Password>>}

\* Two runs with different passwords and everything else the same.
C21_Witness ==
    /\ SameButPassword(pgDumpRuns[1], pgDumpRuns[2])
    /\ pgDumpRuns[1].config.Password # pgDumpRuns[2].config.Password

----------------------------------------------------------------------------
(* Properties of Restore *)

\* The tables that the statements of script create.
Created(script) ==
    { script[i].arg : i \in { j \in 1..Len(script) : script[j].op = "CREATE TABLE" } }

\* C22: the tables of the database change only when Restore returns without
\* an error, and then by all the statements of the script together; when
\* Restore has returned an error the database holds what it held when Restore
\* began.
C22_RestoreAllOrNothing ==
    [][ /\ tables' # tables =>
            /\ restorePc = "exec" /\ restorePc' = "done"
            /\ restoreErr' = NoErr
            /\ restoreIdx = Len(restoreScript)
            /\ tables'[conn] = restoreBefore' \cup Created(restoreScript)
            /\ \A d \in DbNames \ {conn} : tables'[d] = tables[d]
        /\ (restorePc' = "done" /\ restoreErr' # NoErr) =>
            tables'[conn] = restoreBefore'
      ]_vars

\* Restore returned the error of the second statement, after the first one
\* had created a table inside the transaction.
C22_Witness ==
    /\ restorePc = "done"
    /\ restoreErr = "EngineError"
    /\ restoreIdx = 2
    /\ restoreTxn.tables # restoreBefore
    /\ tables[conn] = restoreBefore

----------------------------------------------------------------------------
(* Properties of quoteIdentifier *)

\* s matches ^[A-Za-z_][A-Za-z0-9_$]*$
RegularIdentifier(s) ==
    /\ Len(s) >= 1
    /\ s[1] \in {"a", "s", "S", "_"}
    /\ \A i \in 2..Len(s) : s[i] \in {"a", "s", "S", "1", "_", "$"}

\* s is a reserved keyword, whatever the case of its letters A-Z.
ReservedKeyword(s) ==
    [i \in 1..Len(s) |-> CASE s[i] = "a" -> "A" [] s[i] = "s" -> "S" [] OTHER -> s[i]]
        \in reserved

\* s in double quotes, with its double quotes doubled.
Quoted(s) == <<DoubleQuote>> \o DoubleQuotes(s) \o <<DoubleQuote>>

FoldedIdentifier(s) ==
    /\ Len(s) >= 1
    /\ s[1] \in {"a", "s", "S", LongS, "_"}
    /\ \A i \in 2..Len(s) : s[i] \in {"a", "s", "S", LongS, "1", "_", "$"}

\* The upper case of s is a reserved keyword; the upper case of the long s is S.
UpperIsReserved(s) ==
    [i \in 1..Len(s) |-> CASE s[i] \in {"s", LongS} -> "S" [] s[i] = "a" -> "A"
                            [] OTHER -> s[i]]
        \in reserved

Denotes(r) ==
    IF Len(r) >= 2 /\ r[1] = DoubleQuote /\ r[Len(r)] = DoubleQuote
    THEN Undouble(SubSeq(r, 2, Len(r) - 1))
    ELSE [i \in 1..Len(r) |-> IF r[i] = "S" THEN "s" ELSE r[i]]

\* C24 as stated: quoteIdentifier on what quoteIdentifier returned returns the
\* same, and what quoteIdentifier returns denotes the identifier it was
\* called on.
C24_AsStated ==
    /\ Len(quoteResults) >= 1 => Denotes(quoteResults[1]) = quoteArg
    /\ Len(quoteResults) = 2 => quoteResults[2] = quoteResults[1]

----------------------------------------------------------------------------
(* Properties of the timestamps of the history *)

\* Rows a and b of one namespace are DONE and a was executed before b.
DoneInOrder(a, b) ==
    /\ history[a].namespace = history[b].namespace
    /\ history[a].status = "DONE" /\ history[b].status = "DONE"
    /\ history[a].sequence < history[b].sequence

\* C25: of two DONE rows of a namespace the one with the larger sequence has
\* no smaller created_ts, and FindMigrationHistoryList returns the earlier of
\* them before the later one only when both have the same created_ts.
C25_CreatedTsFollowsSequence ==
    /\ \A a, b \in DOMAIN history :
          DoneInOrder(a, b) => history[a].created_ts <= history[b].created_ts
    /\ \A i, j \in DOMAIN found :
          (i < j /\ DoneInOrder(found[i], found[j])) =>
              history[found[i]].created_ts = history[found[j]].created_ts

\* Two DONE rows that were inserted in different seconds were returned, the
\* later one first.
C25_Witness ==
    /\ Len(found) >= 2
    /\ DoneInOrder(found[2], found[1])
    /\ history[found[2]].created_ts < history[found[1]].created_ts

\* C25 as stated: of two DONE rows of a namespace the one with the larger
\* sequence has no smaller created_ts, and FindMigrationHistoryList never
\* returns the earlier of them before the later one.
C25_AsStated ==
    /\ \A a, b \in DOMAIN history :
          DoneInOrder(a, b) => history[a].created_ts <= history[b].created_ts
    /\ \A i, j \in DOMAIN found :
          i < j => ~DoneInOrder(found[i], found[j])
MatchesOfCall == findInboxList(inboxBefore, inboxCall.arg)

\* C27: unless the database fails, FindInbox returns the only inbox that
\* matches the filter, ENOTFOUND when none matches and ECONFLICT when several
\* match; it never changes the table inbox.
C27_FindInboxOneOrError ==
    inboxCall.op = "FindInbox" =>
        /\ inbox = inboxBefore
        /\ inboxCall.fault = "none" =>
              /\ Cardinality(MatchesOfCall) = 1 =>
                    inboxRet.err = NoErr /\ inboxRet.inbox \in MatchesOfCall
              /\ Cardinality(MatchesOfCall) = 0 =>
                    inboxRet = [inbox |-> NoInbox, err |-> ENOTFOUND]
              /\ Cardinality(MatchesOfCall) > 1 =>
                    inboxRet = [inbox |-> NoInbox, err |-> ECONFLICT]

\* FindInbox met two inboxes of one receiver and returned ECONFLICT.
C27_Witness ==
    /\ inboxCall.op = "FindInbox"
    /\ inboxCall.fault = "none"
    /\ inboxCall.arg.ReceiverId # Nil
    /\ Cardinality(MatchesOfCall) = 2
    /\ inboxRet.err = ECONFLICT

\* C28: PatchInbox of an id of the table changes the status of that row and
\* nothing else and returns the row as it is now; PatchInbox of an id that is
\* not in the table returns ENOTFOUND, and a call that returns an error
\* changes nothing.
C28_PatchInboxOnlyStatus ==
    inboxCall.op = "PatchInbox" =>
        LET id == inboxCall.arg.ID
        IN  /\ inboxRet.err # NoErr => inbox = inboxBefore
            /\ (id \notin DOMAIN inboxBefore /\ inboxCall.fault \notin {"BeginTx", "Query"}) =>
                  inboxRet = [inbox |-> NoInbox, err |-> ENOTFOUND]
            /\ (id \in DOMAIN inboxBefore /\ inboxCall.fault = "none") =>
                  /\ inboxRet.err = NoErr
                  /\ DOMAIN inbox = DOMAIN inboxBefore
                  /\ \A i \in DOMAIN inbox \ {id} : inbox[i] = inboxBefore[i]
                  /\ inbox[id] = [inboxBefore[id] EXCEPT !.status = inboxCall.arg.Status]
                  /\ inboxRet.inbox = Inbox(id, inbox[id])

\* PatchInbox marked one of two unread inboxes as read.
C28_Witness ==
    /\ inboxCall.op = "PatchInbox"
    /\ inboxCall.fault = "none"
    /\ Len(inboxBefore) = 2
    /\ inboxBefore[1].status = "UNREAD" /\ inboxBefore[2].status = "UNREAD"
    /\ inboxCall.arg = [ID |-> 1, Status |-> "READ"]
    /\ inbox[1].status = "READ" /\ inbox[2].status = "UNREAD"
    /\ inboxRet.inbox.Status = "READ"
\* C29 as stated: a MIGRATE whose version is that of a FAILED row of its
\* namespace, with no row that has not failed at that version or above since
\* the latest BASELINE or BRANCH, is not refused with MigrationAlreadyApplied.
C29_AsStated ==
    \A p \in Procs :
        ( /\ pc[p] = "release"
          /\ mig[p].type = "MIGRATE"
          /\ \E i \in DOMAIN history :
                /\ history[i].namespace = mig[p].namespace
                /\ history[i].status = "FAILED"
                /\ history[i].version = ToStoredVersion(mig[p].version)
          /\ ~NotAboveNonFailed(history, mig[p]) )
        => loc[p].err # "MigrationAlreadyApplied"
\* C30 as stated: getIndexColumnExpressions returns the column items of the
\* index statement, one entry for each, in order.
C30_AsStated ==
    indexPc = "done" => indexErr = NoErr /\ cols = indexItems
\* C31 as stated: Execute of CREATE DATABASE for a database that exists does
\* not issue the statement, returns no error and leaves the databases as they
\* are.
C31_AsStated ==
    (createCount > 0 /\ DatabaseNamed(createCall.name) \in createCall.before) =>
        /\ ~createCall.issued
        /\ createCall.err = NoErr
        /\ pgDatabase = createCall.before
\* Every version of the table starts with the non-semantic prefix.
AllStored(table) == \A i \in DOMAIN table : HasNonSemanticPrefix(table[i].version)

CarveOuts == {"CREATE DATABASE", "ALTER DATABASE OWNER TO", "\\connect"}

\* The positions of script with a statement of op.
PositionsOf(script, op) == { i \in DOMAIN script : script[i].op = op }

\* The statements of script that are left for the transaction, in order.
RemainingOf(script) == SelectSeq(script, LAMBDA stmt : stmt.op \notin CarveOuts)

\* The statements of stmts one after the other on the tables of work.
RECURSIVE RunInOrder(_, _)
RunInOrder(work, stmts) ==
    IF stmts = <<>> THEN work
    ELSE RunInOrder(ExecInTx(work, Head(stmts)), Tail(stmts))

\* No statement of the splitting pass of script fails.
SplitPassSucceeds(script) ==
    ApplyMultiStatements([databases |-> databases, tables |-> tables,
                          dbOwner |-> dbOwner, conn |-> conn,
                          remaining |-> <<>>, err |-> NoErr], script, 1).err = NoErr

SameBut(a, b, columns) == \A c \in DOMAIN a \ columns : a[c] = b[c]

\* C34: a row that is PENDING or FAILED has schema equal to schema_prev; a
\* step that changes the history either inserts one such PENDING row, or
\* changes one row and no other: to FAILED in status and duration only, or to
\* DONE in status, duration and schema only.
C34_SchemaKeptUntilDone ==
    /\ [](\A i \in DOMAIN history :
             history[i].status \in {"PENDING", "FAILED"}
                => history[i].schema = history[i].schema_prev)
    /\ [][ history' # history =>
             \/ /\ Len(history') = Len(history) + 1
                /\ SubSeq(history', 1, Len(history)) = history
                /\ history'[Len(history')].status = "PENDING"
             \/ /\ Len(history') = Len(history)
                /\ \E i \in DOMAIN history :
                      /\ \A j \in DOMAIN history \ {i} : history'[j] = history[j]
                      /\ \/ /\ history'[i].status = "FAILED"
                            /\ SameBut(history'[i], history[i],
                                       {"status", "execution_duration_ns"})
                         \/ /\ history'[i].status = "DONE"
                            /\ SameBut(history'[i], history[i],
                                       {"status", "execution_duration_ns", "schema"}) ]_vars

\* Next to a DONE row with a new schema, a FAILED row holds the schema that
\* was there before its migration, which is not empty.
C34_Witness ==
    \E i, j \in DOMAIN history :
        /\ history[i].status = "DONE"
        /\ history[i].schema # history[i].schema_prev
        /\ history[j].status = "FAILED"
        /\ history[j].schema # {}
        /\ history[j].schema = history[j].schema_prev
        /\ history[j].execution_duration_ns > 0

\* C35 as the spec states it: when two callers use the same driver and one of
\* them switches database, the statement of the other neither fails on a
\* closed pool nor runs on another database than the one it called
\* GetDbConnection for.
C35_AsStated ==
    \A c \in Callers : ranOn[c] # "" => ranOn[c] = callFor[c]

\* C36 as the spec states it: the schema sync reports the table of the
\* database, whatever its schema and table name, with its row count and all
\* of its columns.
C36_AsStated ==
    syncPc = "returned" =>
        /\ syncErr = NoErr
        /\ tbl.rowCount = pgTable.rowCount
        /\ tbl.columns = pgTable.columns

\* The unread inboxes of the principal of the last call.
UnreadOfCall ==
    { id \in DOMAIN inbox : /\ inbox[id].receiver_id = inboxCall.arg.ReceiverId
                            /\ inbox[id].status = "UNREAD" }

\* C37: unless the database fails, FindInboxSummary leaves the table as it is
\* and returns HasUnread true exactly when the principal has an UNREAD inbox,
\* and HasUnreadError true exactly when one of its UNREAD inboxes has the
\* level ERROR; HasUnreadError is never true while HasUnread is false.
C37_SummaryOfUnread ==
    (inboxCall.op = "FindInboxSummary" /\ inboxCall.fault = "none") =>
        /\ inbox = inboxBefore
        /\ inboxRet.err = NoErr
        /\ inboxRet.summary.HasUnread <=> UnreadOfCall # {}
        /\ inboxRet.summary.HasUnreadError <=>
              (\E id \in UnreadOfCall : inbox[id].level = "ERROR")
        /\ inboxRet.summary.HasUnreadError => inboxRet.summary.HasUnread

\* The principal has an inbox of level ERROR that was read and an unread one
\* of level INFO: the summary has HasUnread and not HasUnreadError.
C37_Witness ==
    /\ inboxCall.op = "FindInboxSummary"
    /\ inboxCall.fault = "none"
    /\ \E i, j \in DOMAIN inbox :
          /\ inbox[i].receiver_id = inboxCall.arg.ReceiverId
          /\ inbox[i].level = "ERROR" /\ inbox[i].status = "READ"
          /\ inbox[j].receiver_id = inboxCall.arg.ReceiverId
          /\ inbox[j].level = "INFO" /\ inbox[j].status = "UNREAD"
    /\ inboxRet.summary = [HasUnread |-> TRUE, HasUnreadError |-> FALSE]

\* C38: getIndexColumnExpressions returns on every text: a turn of the loop
\* that does not return cuts at least one character from columnStmt, a turn
\* with an empty token returns the error, and the call ends.
C38_LoopConsumesOrReturns ==
    /\ [][(indexPc = "loop" /\ indexPc' = "loop") =>
              Len(columnStmt') < Len(columnStmt)]_vars
    /\ [][(indexPc = "loop" /\ columnStmt # <<>> /\ NextToken(columnStmt) = <<>>) =>
              (indexPc' = "done" /\ indexErr' = "invalid index statement")]_vars
    /\ <>(indexPc = "done")

\* The column list a,,a: after one token the loop met the second comma and
\* returned the error.
C38_Witness ==
    /\ indexItems = << <<"a", ",", ",", "a">> >>
    /\ indexPc = "done"
    /\ indexErr = "invalid index statement"

====
